---- MODULE Spec2Model ----
(***************************************************************************)
(* Model of the measurement data-processing pipeline of the QCL            *)
(* characterization manager: LIVDataProcessor, SpectraDataProcessor and    *)
(* IthDataProcessor (src/src/core/dataprocessing).                         *)
(*                                                                         *)
(* A C++ double is modelled as an exact rational [n |-> numerator,         *)
(* d |-> denominator] in lowest terms with d > 0; d = 0 stands for the     *)
(* non-finite doubles (n = 0: NaN, n = 1 / -1: +inf / -inf).  Rounding of  *)
(* the binary floating-point format is not modelled; std::log and std::exp *)
(* are modelled by an interpolation between powers of two.                 *)
(***************************************************************************)
EXTENDS Integers, Sequences, FiniteSets, TLC

VARIABLES
    kind,           \* which processor is being constructed: "LIV" or "Spectra"
    files,          \* the QVariantMap files, in key (path) order: label, readable, lines
    pc,             \* position in the constructor / later calls
    xList,          \* IDataProcessor lists of the processor
    y1List,
    y2List,
    valueList,
    traceFile,      \* Trace::filePath of entry i (index into files)
    minX, maxX, minY1, maxY1, preNormMaxY2,
    scaleFactor,
    centerModeData, \* SpectraDataProcessor::centerModeData
    sideModeData,   \* SpectraDataProcessor::sideModeData
    oob,            \* an out-of-range element access has happened
    T, Ith, DR,     \* IthDataProcessor vectors
    fitParams,      \* A_exp, B_exp, C0_exp
    polynomialCoefficients,
    fitCall,        \* the last apply...Fit call: its arguments and return value
    plot,           \* the plot builders: the call at hand and what it produced
    conv,           \* FileConverter: the batch at hand
    sheet,          \* DataSheetGenerator: the inputs at hand and the document
    collectedData,  \* WizardGracePage::collectedData, a map from keys to values
    wizard          \* a file field of the wizard: its widget and its WizardField

vars == <<kind, files, pc, xList, y1List, y2List, valueList, traceFile,
          minX, maxX, minY1, maxY1, preNormMaxY2, scaleFactor,
          centerModeData, sideModeData, oob, T, Ith, DR, fitParams,
          polynomialCoefficients, fitCall, plot, conv, sheet, collectedData, wizard>>

livVars == <<xList, y1List, y2List, valueList, traceFile,
             minX, maxX, minY1, maxY1, preNormMaxY2, centerModeData, sideModeData>>

ithVars == <<T, Ith, DR, fitParams, polynomialCoefficients, fitCall>>

outVars == <<plot, conv, sheet, collectedData, wizard>>

\* everything of the data processors
procVars == <<kind, files, pc, scaleFactor, oob, livVars, ithVars>>

-----------------------------------------------------------------------------
(* Bounds of the model *)

MaxLines == 3       \* lines of the file of a one-file map
MaxFiles == 3       \* entries of a several-file map

-----------------------------------------------------------------------------
(* double arithmetic *)

Abs(i) == IF i < 0 THEN -i ELSE i

Sign(i) == IF i < 0 THEN -1 ELSE IF i > 0 THEN 1 ELSE 0

RECURSIVE GCD(_, _)
GCD(a, b) == IF b = 0 THEN a ELSE GCD(b, a % b)

NaN == [n |-> 0, d |-> 0]

Inf(s) == [n |-> IF s < 0 THEN -1 ELSE 1, d |-> 0]

Rat(n, d) ==
    IF d = 0 THEN (IF n = 0 THEN NaN ELSE Inf(n))
    ELSE LET g == GCD(Abs(n), Abs(d))
             s == IF d < 0 THEN -1 ELSE 1
         IN  [n |-> s * (n \div g), d |-> s * (d \div g)]

Num(i) == [n |-> i, d |-> 1]

Zero == Num(0)

IsNaN(a) == a.d = 0 /\ a.n = 0

IsInf(a) == a.d = 0 /\ a.n # 0

IsFinite(a) == a.d > 0

RNeg(a) == [n |-> -a.n, d |-> a.d]

RAdd(a, b) ==
    IF IsFinite(a) /\ IsFinite(b)
    THEN LET g == GCD(a.d, b.d)
         IN  Rat(a.n * (b.d \div g) + b.n * (a.d \div g), (a.d \div g) * b.d)
    ELSE IF IsNaN(a) \/ IsNaN(b) THEN NaN
    ELSE IF IsInf(a) /\ IsInf(b) THEN (IF a.n = b.n THEN a ELSE NaN)
    ELSE IF IsInf(a) THEN a ELSE b

RSub(a, b) == RAdd(a, RNeg(b))

RMul(a, b) ==
    IF IsFinite(a) /\ IsFinite(b)
    THEN LET g1 == GCD(Abs(a.n), b.d)
             g2 == GCD(Abs(b.n), a.d)
         IN  Rat((a.n \div g1) * (b.n \div g2), (a.d \div g2) * (b.d \div g1))
    ELSE IF IsNaN(a) \/ IsNaN(b) \/ a.n = 0 \/ b.n = 0 THEN NaN
    ELSE Inf(Sign(a.n) * Sign(b.n))

RDiv(a, b) ==
    IF IsNaN(a) \/ IsNaN(b) THEN NaN
    ELSE IF IsFinite(a) /\ IsFinite(b)
    THEN IF b.n = 0 THEN (IF a.n = 0 THEN NaN ELSE Inf(a.n))
         ELSE RMul(a, [n |-> Sign(b.n) * b.d, d |-> Abs(b.n)])
    ELSE IF IsInf(a) /\ IsInf(b) THEN NaN
    ELSE IF IsInf(a) THEN Inf(a.n * (IF b.n < 0 THEN -1 ELSE 1))
    ELSE Zero

RLt(a, b) ==
    IF IsNaN(a) \/ IsNaN(b) THEN FALSE
    ELSE IF IsFinite(a) /\ IsFinite(b)
    THEN LET g == GCD(a.d, b.d) IN a.n * (b.d \div g) < b.n * (a.d \div g)
    ELSE IF IsInf(a) THEN a.n < 0 /\ ~(IsInf(b) /\ b.n < 0)
    ELSE b.n > 0

RLe(a, b) == ~IsNaN(a) /\ ~IsNaN(b) /\ ~RLt(b, a)

RGt(a, b) == RLt(b, a)

RGe(a, b) == RLe(b, a)

REq(a, b) == ~IsNaN(a) /\ a = b

RMin(a, b) == IF RLt(b, a) THEN b ELSE a      \* std::min

RMax(a, b) == IF RLt(a, b) THEN b ELSE a      \* std::max

RAbs(a) == [n |-> Abs(a.n), d |-> a.d]

\* std::numeric_limits<double>::max() and lowest(): above / below every value
\* the inputs produce; they are compared with, never computed with.
DblMax == Inf(1)

DblLowest == Inf(-1)

-----------------------------------------------------------------------------
(* sequences *)

Range(s) == {s[i] : i \in DOMAIN s}

\* a function on 1..n as the sequence of its values
Vector(f) == <<>> \o f

RECURSIVE SeqsUpTo(_, _)
SeqsUpTo(S, k) ==
    IF k = 0 THEN {<<>>}
    ELSE LET shorter == SeqsUpTo(S, k - 1)
         IN  shorter \cup {Append(s, e) : s \in {t \in shorter : Len(t) = k - 1}, e \in S}

Reverse(s) == Vector([i \in 1..Len(s) |-> s[Len(s) + 1 - i]])

Perms(k) == {p \in [1..k -> 1..k] : \A i, j \in 1..k : p[i] = p[j] => i = j}

\* index of the first largest / smallest element (std::max_element, std::min_element)
MaxIndex(s) ==
    CHOOSE i \in DOMAIN s :
        /\ \A j \in DOMAIN s : ~RLt(s[i], s[j])
        /\ \A j \in 1..(i - 1) : RLt(s[j], s[i])

MinIndex(s) ==
    CHOOSE i \in DOMAIN s :
        /\ \A j \in DOMAIN s : ~RLt(s[j], s[i])
        /\ \A j \in 1..(i - 1) : RLt(s[i], s[j])

MaxElement(s) == s[MaxIndex(s)]

MinElement(s) == s[MinIndex(s)]

-----------------------------------------------------------------------------
(* QString::toDouble: text is a sequence of characters *)

Digits == <<"0", "1", "2", "3", "4", "5", "6", "7", "8", "9">>

IsDigit(c) == c \in Range(Digits)

DigitVal(c) == (CHOOSE i \in DOMAIN Digits : Digits[i] = c) - 1

RECURSIVE DigitsVal(_)
DigitsVal(s) ==
    IF s = <<>> THEN 0
    ELSE 10 * DigitsVal(SubSeq(s, 1, Len(s) - 1)) + DigitVal(s[Len(s)])

RECURSIVE Pow10(_)
Pow10(k) == IF k = 0 THEN 1 ELSE 10 * Pow10(k - 1)

\* QString::toDouble on an optional sign and digits with at most one decimal
\* point; any other text among the fields used here does not convert and
\* yields 0.0.  Exponent notation and the spellings of infinity and NaN are
\* not among the fields used.
ToDouble(s) ==
    LET neg  == s # <<>> /\ s[1] = "-"
        body == IF neg THEN Tail(s) ELSE s
        dots == {i \in DOMAIN body : body[i] = "."}
        ok   == /\ \A i \in DOMAIN body : IsDigit(body[i]) \/ body[i] = "."
                /\ Cardinality(dots) <= 1
                /\ \E i \in DOMAIN body : IsDigit(body[i])
        frac == IF dots = {} THEN 0 ELSE Len(body) - (CHOOSE i \in dots : TRUE)
    IN  IF ok
        THEN Rat((IF neg THEN -1 ELSE 1) * DigitsVal(SelectSeq(body, IsDigit)), Pow10(frac))
        ELSE Zero

-----------------------------------------------------------------------------
(* Reading one trace file *)

NoiseFloor == Rat(5, 1000)                  \* 0.005

\* 0.0299792458, kept to four significant digits (0.02998) so that products of
\* frequencies stay within 32-bit integers
THzPerWavenumber == Rat(1499, 50000)

\* SortOrders without the sort: the input order
SortOrdersUnsorted(keys) == {[i \in 1..Len(keys) |-> i]}

\* the orders std::sort may leave a sequence with these keys in: every permutation
\* p of the indices with the keys non-decreasing; the order of equivalent elements
\* is unspecified
SortOrders(keys) ==
    {p \in Perms(Len(keys)) :
        \A i, j \in 1..Len(keys) : i < j => ~RLt(keys[p[j]], keys[p[i]])}

Column(points, c) == Vector([k \in 1..Len(points) |-> points[k][c]])

\* LIVPoints with the noise floor compared by < instead of <=
LIVPointsKeepFloor(lines) ==
    LET fields3 == SelectSeq(lines, LAMBDA l : Len(l) = 3)
        parsed  == [k \in 1..Len(fields3) |->
                       <<ToDouble(fields3[k][1]), ToDouble(fields3[k][2]),
                         ToDouble(fields3[k][3])>>]
    IN  SelectSeq(parsed, LAMBDA pt : ~RLt(pt[1], NoiseFloor))

\* the points a 3-column file contributes, in file order
LIVPoints(lines) ==
    LET fields3 == SelectSeq(lines, LAMBDA l : Len(l) = 3)
        parsed  == [k \in 1..Len(fields3) |->
                       <<ToDouble(fields3[k][1]), ToDouble(fields3[k][2]),
                         ToDouble(fields3[k][3])>>]
    IN  SelectSeq(parsed, LAMBDA pt : ~RLe(pt[1], NoiseFloor))

\* LIVDataProcessor::generateVectorsFromFile: the vectors it may leave in x, y1, y2
LIVVectorsFromFile(f) ==
    IF ~f.readable THEN {[x |-> <<>>, y1 |-> <<>>, y2 |-> <<>>]}
    ELSE LET points == LIVPoints(f.lines)
         IN  {LET sorted == [k \in 1..Len(points) |-> points[p[k]]]
              IN  [x |-> Column(sorted, 1), y1 |-> Column(sorted, 2), y2 |-> Column(sorted, 3)]
              : p \in SortOrders(Column(points, 1))}

\* SpectraDataProcessor::generateVectorsFromFile
SpectraVectorsFromFile(f) ==
    IF ~f.readable THEN [x |-> <<>>, y1 |-> <<>>]
    ELSE LET fields2 == SelectSeq(f.lines, LAMBDA l : Len(l) = 2)
             parsed  == [k \in 1..Len(fields2) |->
                            <<RMul(ToDouble(fields2[k][1]), THzPerWavenumber),
                              ToDouble(fields2[k][2])>>]
             points  == SelectSeq(parsed, LAMBDA pt : ~RLe(pt[1], NoiseFloor))
         IN  [x |-> Column(points, 1), y1 |-> Column(points, 2)]

-----------------------------------------------------------------------------
(* Trace sets *)

\* one choice from each set of a sequence of sets
RECURSIVE Choices(_)
Choices(sets) ==
    IF sets = <<>> THEN {<<>>}
    ELSE {<<h>> \o t : h \in Head(sets), t \in Choices(Tail(sets))}

RECURSIVE Flatten(_)
Flatten(ss) == IF ss = <<>> THEN <<>> ELSE Head(ss) \o Flatten(Tail(ss))

RECURSIVE FoldMin(_, _)
FoldMin(acc, s) == IF s = <<>> THEN acc ELSE FoldMin(RMin(acc, Head(s)), Tail(s))

RECURSIVE FoldMax(_, _)
FoldMax(acc, s) == IF s = <<>> THEN acc ELSE FoldMax(RMax(acc, Head(s)), Tail(s))

-----------------------------------------------------------------------------
(* Spectral peaks *)

\* what a read outside a vector's elements may yield when it does not abort the
\* program: any double; the model keeps two of them, and one per call
Garbage == {Zero, NaN}

Peak(f, a, w, q) == [frequency |-> f, amplitude |-> a, fwhm |-> w, qFactor |-> q]

\* findClosestIndex, 1-based; 0 stands for the source's -1
FindClosestIndex(vec, target) ==
    IF vec = <<>> THEN 0
    ELSE CHOOSE i \in DOMAIN vec :
            /\ \A j \in DOMAIN vec :
                   ~RLt(RAbs(RSub(vec[j], target)), RAbs(RSub(vec[i], target)))
            /\ \A j \in 1..(i - 1) :
                   RLt(RAbs(RSub(vec[i], target)), RAbs(RSub(vec[j], target)))

FindCenterMode(x, y1) == x[MaxIndex(y1)]

InterpolateHalfMaxCrossing(x1, y1, x2, y2, halfMax) ==
    IF x1 = x2 \/ y1 = y2 THEN x1
    ELSE LET slope == RDiv(RSub(y2, y1), RSub(x2, x1))
         IN  RAdd(x1, RDiv(RSub(halfMax, y1), slope))

Crosses(a, b, halfMax) ==
    \/ RGe(a, halfMax) /\ RLt(b, halfMax)
    \/ RLe(a, halfMax) /\ RGt(b, halfMax)

FindLeftHalfMaxCrossing(x, y1, peakIndex, halfMax) ==
    LET hits == {i \in 2..peakIndex : Crosses(y1[i], y1[i - 1], halfMax)}
    IN  IF hits = {} THEN NaN
        ELSE LET i == CHOOSE h \in hits : \A g \in hits : g <= h
             IN  InterpolateHalfMaxCrossing(x[i], y1[i], x[i - 1], y1[i - 1], halfMax)

FindRightHalfMaxCrossing(x, y1, peakIndex, halfMax) ==
    LET hits == {i \in peakIndex..(Len(x) - 1) : Crosses(y1[i], y1[i + 1], halfMax)}
    IN  IF hits = {} THEN NaN
        ELSE LET i == CHOOSE h \in hits : \A g \in hits : h <= g
             IN  InterpolateHalfMaxCrossing(x[i], y1[i], x[i + 1], y1[i + 1], halfMax)

\* the width between the two crossings, without std::abs
FWHMBetweenSigned(leftFreq, rightFreq) ==
    IF IsNaN(leftFreq) \/ IsNaN(rightFreq) \/ leftFreq = rightFreq
    THEN Zero
    ELSE RSub(rightFreq, leftFreq)

\* the width between the two crossings
FWHMBetween(leftFreq, rightFreq) ==
    IF IsNaN(leftFreq) \/ IsNaN(rightFreq) \/ leftFreq = rightFreq
    THEN Zero
    ELSE RAbs(RSub(rightFreq, leftFreq))

\* the width of the peak at index peakIndex with half maximum halfMax
FWHMAt(x, y1, peakIndex, halfMax) ==
    FWHMBetween(FindLeftHalfMaxCrossing(x, y1, peakIndex, halfMax),
                FindRightHalfMaxCrossing(x, y1, peakIndex, halfMax))

FWHMOfIndex(x, y1, peakIndex) ==
    IF peakIndex = 0 THEN Zero
    ELSE FWHMAt(x, y1, peakIndex, RDiv(y1[peakIndex], Num(2)))

CalculateFWHM(x, y1, peakFreq) == FWHMOfIndex(x, y1, FindClosestIndex(x, peakFreq))

\* calculateQFactor without the test of the width
CalculateQFactorUnguarded(f0, fwhm) == RDiv(f0, fwhm)

CalculateQFactor(f0, fwhm) == IF RLe(fwhm, Zero) THEN Zero ELSE RDiv(f0, fwhm)

RECURSIVE Sum(_)
Sum(s) == IF s = <<>> THEN Zero ELSE RAdd(Head(s), Sum(Tail(s)))

IMax(a, b) == IF a < b THEN b ELSE a

IMin(a, b) == IF b < a THEN b ELSE a

Smooth(y, windowSize) ==
    LET halfWindow == windowSize \div 2
    IN  [i \in 1..Len(y) |->
            LET start == IMax(1, i - halfWindow)
                end   == IMin(Len(y), i + halfWindow)
            IN  RDiv(Sum(SubSeq(y, start, end)), Num(end - start + 1))]

ProminenceRange == 10

IsProminentPeak(y, index, minProminence) ==
    IF index < 1 \/ index > Len(y) THEN FALSE
    ELSE RGe(RSub(y[index],
                  RMax(FoldMin(y[index], SubSeq(y, IMax(1, index - ProminenceRange), index - 1)),
                       FoldMin(y[index], SubSeq(y, index + 1,
                                                IMin(Len(y), index + ProminenceRange))))),
             minProminence)

SmoothWindow == 5

\* the side peak found at index i, if any
SideModeAt(i, x, ySmooth, fwhm) ==
    IF RGt(fwhm, Zero)
    THEN <<Peak(x[i], ySmooth[i], fwhm, CalculateQFactor(x[i], fwhm))>>
    ELSE <<>>

\* the loop of findSideModes from index i on
RECURSIVE SideModesFrom(_, _, _, _, _)
SideModesFrom(i, x, ySmooth, minPeakHeight, minProminence) ==
    IF i > Len(ySmooth) - 1 THEN <<>>
    ELSE (IF /\ RGt(ySmooth[i], minPeakHeight)
             /\ RGt(ySmooth[i], ySmooth[i - 1])
             /\ RGt(ySmooth[i], ySmooth[i + 1])
             /\ IsProminentPeak(ySmooth, i, minProminence)
          THEN SideModeAt(i, x, ySmooth, CalculateFWHM(x, ySmooth, x[i]))
          ELSE <<>>)
         \o SideModesFrom(i + 1, x, ySmooth, minPeakHeight, minProminence)

SideModesOfSmoothed(x, ySmooth, maxAmp, threshold) ==
    IF maxAmp = Zero THEN <<>>
    ELSE SideModesFrom(2, x, ySmooth, RMul(threshold, maxAmp), RMul(Rat(5, 100), maxAmp))

SideModesOf(x, ySmooth, threshold) ==
    SideModesOfSmoothed(x, ySmooth, MaxElement(ySmooth), threshold)

FindSideModes(x, y1, threshold) ==
    IF y1 = <<>> THEN <<>> ELSE SideModesOf(x, Smooth(y1, SmoothWindow), threshold)

SideModeThreshold == Rat(15, 100)

SameModeTolerance == Rat(1, 1000000)

\* step 4 of SpectraDataProcessor::generateVectors for one trace: the centre
\* peak and the side peaks it stores.  On an empty trace findCenterMode reads
\* x[0] and the amplitude reads *y.end(), both outside the vector: g is what
\* such a read yields.
CenterPeak(centerFreq, amplitude, fwhm) ==
    Peak(centerFreq, amplitude, fwhm, CalculateQFactor(centerFreq, fwhm))

SidePeaksApartFrom(sidePeaks, centerFreq) ==
    SelectSeq(sidePeaks, LAMBDA pk :
        ~RLt(RAbs(RSub(pk.frequency, centerFreq)), SameModeTolerance))

PeaksAround(x, y1, centerFreq) ==
    [center |-> CenterPeak(centerFreq, MaxElement(y1), CalculateFWHM(x, y1, centerFreq)),
     side   |-> SidePeaksApartFrom(FindSideModes(x, y1, SideModeThreshold), centerFreq)]

TracePeaks(x, y1, g) ==
    IF x = <<>>
    THEN [center |-> CenterPeak(g, g, CalculateFWHM(x, y1, g)), side |-> <<>>]
    ELSE PeaksAround(x, y1, FindCenterMode(x, y1))

-----------------------------------------------------------------------------
(* Inputs: the text of the trace files and the labels of the file map *)

LineA == << <<"0", ".", "0", "0", "6">>, <<"1">>, <<"2">> >>        \* 0.006 1 2
LineB == << <<"0", ".", "0", "2">>, <<"3">>, <<"4", "0">> >>        \* 0.02 3 40
LineC == << <<"0", ".", "0", "0", "5">>, <<"9">>, <<"9">> >>        \* 0.005 9 9
LineD == << <<"0", ".", "0", "1">>, <<"2">>, <<"0">> >>             \* 0.01 2 0
LineE == << <<"0", ".", "0", "2">>, <<"5">>, <<"1">> >>             \* 0.02 5 1
LineF == << <<"K">>, <<"1">>, <<"1">> >>                            \* K 1 1
LineG == << <<"0", ".", "2">>, <<"1">> >>                           \* 0.2 1
LineH == << <<"0", ".", "1">>, <<"9">> >>                           \* 0.1 9
LineI == << <<"1", "2", "0">>, <<"5">> >>                           \* 120 5
LineJ == << <<"1", "0", "0">>, <<"7">> >>                           \* 100 7
LineK == << <<"1", "1", "0">>, <<"2">> >>                           \* 110 2
LineM == << <<"0", ".", "0", "3">>, <<"4">>, <<"2", "0">> >>        \* 0.03 4 20
LineN == << <<"0", ".", "0", "1">>, <<"1">>, <<"1">> >>             \* 0.01 1 1

Kinds == {"LIV", "Spectra"}

\* lines of a one-file map, by processor
LineSet(k) ==
    IF k = "LIV" THEN {LineA, LineB, LineC, LineD, LineE, LineF, LineG}
    ELSE {LineG, LineH, LineI, LineJ, LineK, LineA}

\* the text of the i-th file of a several-file map
Contents(k, i) ==
    LET c == ((i - 1) % 3) + 1
    IN  IF k = "LIV"
        THEN <<  <<LineD, LineN>>,  <<LineA, LineB, LineM>>,  <<LineM, LineD, LineE>>  >>[c]
        ELSE <<  <<LineJ, LineK, LineI>>,  <<LineI, LineK, LineJ>>,  <<LineG, LineH, LineJ>>  >>[c]

Label10 == <<"1", "0">>
Label30 == <<"3", "0">>
Label50 == <<"5", "0">>

LabelK == <<"K">>

\* the labels tried for the file at position i of a several-file map
LabelChoices(i) ==
    LET c == ((i - 1) % 3) + 1
    IN  IF c = 1 THEN {Label10, Label30}
        ELSE IF c = 2 THEN {Label50, LabelK}
        ELSE {Label30, Label10}

\* the scaleFactor argument: the default 100.0, or a measured peak power
DefaultScaleFactor(k) == IF k = "LIV" THEN Num(100) ELSE Zero

ScaleFactors(k) == IF k = "LIV" THEN {Num(100), Rat(5, 2)} ELSE {Zero}

File(label, readable, lines) == [label |-> label, readable |-> readable, lines |-> lines]

OneFileMaps(k) ==
    {<<File(Label10, TRUE, ls)>> : ls \in SeqsUpTo(LineSet(k), MaxLines)}

SeveralFileMaps(k) ==
    UNION {{[i \in 1..n |-> File(lab[i], rd[i], Contents(k, i))]
            : lab \in {l \in [1..n -> UNION {LabelChoices(i) : i \in 1..n}] :
                           \A i \in 1..n : l[i] \in LabelChoices(i)},
              rd \in [1..n -> BOOLEAN]}
           : n \in 0..MaxFiles}

NoParams == [A |-> NaN, B |-> NaN, C0 |-> NaN]

NoCall == [op |-> "none", numPoints |-> 0, order |-> 0, ok |-> FALSE,
           first |-> <<>>, second |-> <<>>]

NoPlot == [op |-> "none"]

NoConv == [op |-> "none"]

NoSheet == [op |-> "none"]

NoCollectedData == <<>>

NoWizard == [op |-> "none"]

\* no plot, conversion or datasheet is under way, and nothing is collected
NoOutput ==
    /\ plot = NoPlot /\ conv = NoConv /\ sheet = NoSheet
    /\ collectedData = NoCollectedData /\ wizard = NoWizard

\* the state before a processor is constructed
Fresh ==
    /\ pc = "start"
    /\ xList = <<>> /\ y1List = <<>> /\ y2List = <<>> /\ valueList = <<>>
    /\ traceFile = <<>>
    /\ minX = DblMax /\ maxX = DblLowest
    /\ minY1 = DblMax /\ maxY1 = DblLowest
    /\ preNormMaxY2 = DblLowest
    /\ centerModeData = <<>> /\ sideModeData = <<>>
    /\ oob = FALSE
    /\ T = <<>> /\ Ith = <<>> /\ DR = <<>>
    /\ fitParams = NoParams
    /\ polynomialCoefficients = <<>>
    /\ fitCall = NoCall

\* a processor constructed from a map of one file with any lines
InitFile ==
    /\ kind \in Kinds
    /\ files \in OneFileMaps(kind)
    /\ scaleFactor \in ScaleFactors(kind)
    /\ Fresh
    /\ NoOutput

\* a processor constructed from a map of several files with any labels
InitSet ==
    /\ kind \in Kinds
    /\ files \in SeveralFileMaps(kind)
    /\ scaleFactor = DefaultScaleFactor(kind)
    /\ Fresh
    /\ NoOutput

-----------------------------------------------------------------------------
(* LIVDataProcessor *)

Field(traces, f) == Vector([i \in 1..Len(traces) |-> traces[i][f]])

\* LIVDataProcessor::generateVectors: read every file in key order, sort the
\* traces by the numeric value of the label, fill the lists and the extrema
LIVGenerateVectors ==
    /\ kind = "LIV" /\ pc = "start"
    /\ \E read \in Choices([i \in 1..Len(files) |-> LIVVectorsFromFile(files[i])]) :
       \E traces \in {[i \in 1..Len(files) |->
                         [filePath |-> i, valueStr |-> files[i].label,
                          key |-> ToDouble(files[i].label),
                          x |-> read[i].x, y1 |-> read[i].y1, y2 |-> read[i].y2]]} :
       \E p \in SortOrders(Field(traces, "key")) :
       \E sorted \in {[i \in 1..Len(traces) |-> traces[p[i]]]} :
           /\ xList' = Field(sorted, "x")
           /\ y1List' = Field(sorted, "y1")
           /\ y2List' = Field(sorted, "y2")
           /\ valueList' = Field(sorted, "valueStr")
           /\ traceFile' = Field(sorted, "filePath")
           /\ minX' = FoldMin(minX, Flatten(Field(sorted, "x")))
           /\ maxX' = FoldMax(maxX, Flatten(Field(sorted, "x")))
           /\ minY1' = FoldMin(minY1, Flatten(Field(sorted, "y1")))
           /\ maxY1' = FoldMax(maxY1, Flatten(Field(sorted, "y1")))
           /\ preNormMaxY2' = FoldMax(preNormMaxY2, Flatten(Field(sorted, "y2")))
    /\ pc' = "generated"
    /\ UNCHANGED <<kind, files, scaleFactor, centerModeData, sideModeData, oob>>
    /\ UNCHANGED ithVars
    /\ UNCHANGED outVars

\* ReferenceNorm taken from the last value of the first trace
ReferenceNormFirstTrace ==
    IF y2List[1] = <<>> THEN Num(1)
    ELSE IF y2List[1][Len(y2List[1])] = Zero THEN Num(1)
    ELSE y2List[1][Len(y2List[1])]

\* the reference the optical values are divided by
ReferenceNorm == IF preNormMaxY2 = Zero THEN Num(1) ELSE preNormMaxY2

\* the value divided by the reference and not scaled
NormalizedY2Unscaled(val) == RDiv(val, ReferenceNorm)

NormalizedY2(val) == RMul(RDiv(val, ReferenceNorm), scaleFactor)

\* LIVDataProcessor::normalizeData, the last step of the constructor
LIVNormalizeData ==
    /\ kind = "LIV" /\ pc = "generated"
    /\ y2List' = IF y2List = <<>> THEN y2List
                 ELSE [i \in 1..Len(y2List) |->
                          [k \in 1..Len(y2List[i]) |-> NormalizedY2(y2List[i][k])]]
    /\ pc' = "done"
    /\ UNCHANGED <<kind, files, scaleFactor, xList, y1List, valueList, traceFile,
                   minX, maxX, minY1, maxY1, preNormMaxY2, centerModeData,
                   sideModeData, oob>>
    /\ UNCHANGED ithVars
    /\ UNCHANGED outVars

-----------------------------------------------------------------------------
(* SpectraDataProcessor *)

\* SpectraDataProcessor::generateVectors: read, sort by label, fill the lists,
\* then compute the peaks of every trace.  A read outside an empty trace either
\* aborts the construction or yields some value.
SpectraGenerateVectors ==
    /\ kind = "Spectra" /\ pc = "start"
    /\ \E read \in {[i \in 1..Len(files) |-> SpectraVectorsFromFile(files[i])]} :
       \E traces \in {[i \in 1..Len(files) |->
                         [filePath |-> i, valueStr |-> files[i].label,
                          key |-> ToDouble(files[i].label),
                          x |-> read[i].x, y1 |-> read[i].y1]]} :
       \E p \in SortOrders(Field(traces, "key")) :
       \E sorted \in {[i \in 1..Len(traces) |-> traces[p[i]]]} :
       \E g \in Garbage :
       \E peaks \in {[i \in 1..Len(sorted) |-> TracePeaks(sorted[i].x, sorted[i].y1, g)]} :
       \E empty \in {{i \in 1..Len(sorted) : sorted[i].x = <<>>}} :
           /\ xList' = Field(sorted, "x")
           /\ y1List' = Field(sorted, "y1")
           /\ valueList' = Field(sorted, "valueStr")
           /\ traceFile' = Field(sorted, "filePath")
           /\ oob' = (empty # {})
           /\ \/ /\ centerModeData' = Field(peaks, "center")
                 /\ sideModeData' = Field(peaks, "side")
                 /\ pc' = "generated"
              \/ /\ empty # {}
                 /\ \E stop \in {(CHOOSE i \in empty : \A j \in empty : i <= j) - 1} :
                       /\ centerModeData' = SubSeq(Field(peaks, "center"), 1, stop)
                       /\ sideModeData' = SubSeq(Field(peaks, "side"), 1, stop)
                 /\ pc' = "crashed"
    /\ UNCHANGED <<kind, files, scaleFactor, y2List, minX, maxX, minY1, maxY1,
                   preNormMaxY2>>
    /\ UNCHANGED ithVars
    /\ UNCHANGED outVars

\* SpectraDataProcessor::ensureAscendingX
SpectraEnsureAscendingX ==
    /\ kind = "Spectra" /\ pc = "generated"
    /\ LET flip(i) == Len(xList[i]) >= 2 /\ RGt(xList[i][1], xList[i][Len(xList[i])])
       IN  /\ xList' = [i \in 1..Len(xList) |->
                           IF flip(i) THEN Reverse(xList[i]) ELSE xList[i]]
           /\ y1List' = [i \in 1..Len(y1List) |->
                            IF flip(i) THEN Reverse(y1List[i]) ELSE y1List[i]]
    /\ pc' = "ascending"
    /\ UNCHANGED <<kind, files, scaleFactor, y2List, valueList, traceFile, minX, maxX,
                   minY1, maxY1, preNormMaxY2, centerModeData, sideModeData, oob>>
    /\ UNCHANGED ithVars
    /\ UNCHANGED outVars

\* one trace of SpectraDataProcessor::normalizeData
NormalizedTrace(y1) ==
    IF y1 = <<>> THEN y1
    ELSE LET maxVal == MaxElement(y1)
         IN  IF maxVal # Zero THEN [k \in 1..Len(y1) |-> RDiv(y1[k], maxVal)] ELSE y1

\* SpectraDataProcessor::normalizeData, the last step of the constructor that
\* changes the processor
SpectraNormalizeData ==
    /\ kind = "Spectra" /\ pc = "ascending"
    /\ y1List' = [i \in 1..Len(y1List) |-> NormalizedTrace(y1List[i])]
    /\ pc' = "done"
    /\ UNCHANGED <<kind, files, scaleFactor, xList, y2List, valueList, traceFile, minX,
                   maxX, minY1, maxY1, preNormMaxY2, centerModeData, sideModeData, oob>>
    /\ UNCHANGED ithVars
    /\ UNCHANGED outVars

-----------------------------------------------------------------------------
(* IthDataProcessor *)

\* the threshold every caller passes, and the default of the constructor
IthThreshold == Num(3)

\* the indices of L at or above the threshold
AboveThreshold(L, threshold) == {j \in DOMAIN L : RGe(L[j], threshold)}

\* the dynamic range of one trace: the loop over all I[j] with L[j] >= threshold
DynamicRange(I, L, threshold) ==
    RMul(RSub(FoldMax(DblLowest, SelectSeq([j \in DOMAIN L |->
                                               IF RGe(L[j], threshold) THEN I[j] ELSE NaN],
                                           LAMBDA v : ~IsNaN(v))),
              FoldMin(DblMax, SelectSeq([j \in DOMAIN L |->
                                            IF RGe(L[j], threshold) THEN I[j] ELSE NaN],
                                        LAMBDA v : ~IsNaN(v)))),
         Num(1000))

\* IthEntry with the threshold current read at the last crossing index
IthEntryLastCrossing(label, I, L, threshold) ==
    IF Len(I) # Len(L) THEN <<>>
    ELSE IF AboveThreshold(L, threshold) = {} THEN <<>>
    ELSE << [T   |-> ToDouble(label),
             Ith |-> I[CHOOSE j \in AboveThreshold(L, threshold) :
                           \A k \in AboveThreshold(L, threshold) : k <= j],
             DR  |-> DynamicRange(I, L, threshold)] >>

\* the body of the loop of IthDataProcessor::process for one trace: the entries
\* it appends to T, Ith and DR
IthEntry(label, I, L, threshold) ==
    IF Len(I) # Len(L) THEN <<>>
    ELSE IF AboveThreshold(L, threshold) = {} THEN <<>>
    ELSE << [T   |-> ToDouble(label),
             Ith |-> I[CHOOSE j \in AboveThreshold(L, threshold) :
                           \A k \in AboveThreshold(L, threshold) : j <= k],
             DR  |-> DynamicRange(I, L, threshold)] >>

RECURSIVE IthEntries(_, _)
IthEntries(idx, threshold) ==
    IF idx > Len(valueList) THEN <<>>
    ELSE IthEntry(valueList[idx], xList[idx], y2List[idx], threshold)
         \o IthEntries(idx + 1, threshold)

\* IthDataProcessor::IthDataProcessor on a constructed LIVDataProcessor.  The
\* constructor leaves A_exp, B_exp and C0_exp uninitialized.
IthProcess ==
    /\ kind = "LIV" /\ pc = "done"
    /\ \E entries \in {IthEntries(1, IthThreshold)} :
          /\ T' = Field(entries, "T")
          /\ Ith' = Field(entries, "Ith")
          /\ DR' = Field(entries, "DR")
    /\ \E g \in Garbage : fitParams' = [A |-> g, B |-> g, C0 |-> g]
    /\ polynomialCoefficients' = <<>>
    /\ pc' = "ith"
    /\ UNCHANGED <<kind, files, scaleFactor, oob, fitCall>>
    /\ UNCHANGED livVars
    /\ UNCHANGED outVars

-----------------------------------------------------------------------------

-----------------------------------------------------------------------------
(* IthDataProcessor: the fits *)

Floor(a) == a.n \div a.d

\* The values std::log and std::exp return are modelled by the interpolation
\* of the function between neighbouring powers of two, cut to two decimals
\* (to a whole number from 100 up): monotone, finite on finite arguments, and
\* non-finite where the library function is.
Round(a) ==
    IF ~IsFinite(a) THEN a
    ELSE IF Abs(Floor(a)) >= 100 THEN Num(Floor(a))
    ELSE Rat(Floor(a) * 100 + ((a.n % a.d) * 100) \div a.d, 100)

RECURSIVE TwoTo(_)
TwoTo(k) ==
    IF k = 0 THEN Num(1)
    ELSE IF k > 0 THEN RMul(Num(2), TwoTo(k - 1))
    ELSE RDiv(TwoTo(k + 1), Num(2))

\* the k with 2^k <= a < 2^(k+1), for a finite a > 0
RECURSIVE Log2Floor(_)
Log2Floor(a) ==
    IF RGe(a, Num(2)) THEN Log2Floor(RDiv(a, Num(2))) + 1
    ELSE IF RLt(a, Num(1)) THEN Log2Floor(RMul(a, Num(2))) - 1
    ELSE 0

Ln2 == Rat(7, 10)

LogPositive(a, k) ==
    Round(RMul(Ln2, RAdd(Num(k), RSub(RDiv(a, TwoTo(k)), Num(1)))))

\* std::log
Log(a) ==
    IF IsNaN(a) THEN NaN
    ELSE IF IsInf(a) THEN (IF a.n > 0 THEN a ELSE NaN)
    ELSE IF a.n < 0 THEN NaN
    ELSE IF a.n = 0 THEN Inf(-1)
    ELSE LogPositive(a, Log2Floor(a))

ExpOfBinary(w) ==
    RMul(TwoTo(Floor(w)), Round(RAdd(Num(1), RSub(w, Num(Floor(w))))))

\* std::exp
Exp(z) ==
    IF IsNaN(z) THEN NaN
    ELSE IF IsInf(z) THEN (IF z.n > 0 THEN z ELSE Zero)
    ELSE ExpOfBinary(RDiv(z, Ln2))

\* std::pow with an exponent j >= 0
RECURSIVE RPow(_, _)
RPow(x, j) == IF j = 0 THEN Num(1) ELSE RMul(x, RPow(x, j - 1))

\* ExponentialFitSolve without the test of the denominator
ExponentialFitSolveUnchecked(n, sumX, sumY, sumXX, sumXY, y_min, out) ==
    LET denominator == RSub(RMul(Num(n), sumXX), RMul(sumX, sumX))
        B   == RDiv(RSub(RMul(Num(n), sumXY), RMul(sumX, sumY)), denominator)
        lnA == RDiv(RSub(sumY, RMul(B, sumX)), Num(n))
    IN  [ok |-> TRUE, A |-> Exp(lnA), B |-> B, C0 |-> y_min]

\* exponentialFit from the sums on: the least-squares line through (x, ln y_adj)
ExponentialFitSolve(n, sumX, sumY, sumXX, sumXY, y_min, out) ==
    LET denominator == RSub(RMul(Num(n), sumXX), RMul(sumX, sumX))
        B   == RDiv(RSub(RMul(Num(n), sumXY), RMul(sumX, sumY)), denominator)
        lnA == RDiv(RSub(sumY, RMul(B, sumX)), Num(n))
    IN  IF REq(denominator, Zero)
        THEN [ok |-> FALSE, A |-> out.A, B |-> out.B, C0 |-> y_min]
        ELSE [ok |-> TRUE, A |-> Exp(lnA), B |-> B, C0 |-> y_min]

\* exponentialFit from the logarithms on
ExponentialFitSums(x, log_y_adj, y_min, out) ==
    ExponentialFitSolve(Len(x), Sum(x), Sum(log_y_adj),
                        Sum(Vector([i \in DOMAIN x |-> RMul(x[i], x[i])])),
                        Sum(Vector([i \in DOMAIN x |-> RMul(x[i], log_y_adj[i])])),
                        y_min, out)

\* exponentialFit from the adjusted values on
ExponentialFitAdjusted(x, y_adj, y_min, out) ==
    IF \E i \in DOMAIN y_adj : RLe(y_adj[i], Zero)
    THEN [ok |-> FALSE, A |-> out.A, B |-> out.B, C0 |-> y_min]
    ELSE ExponentialFitSums(x, Vector([i \in DOMAIN y_adj |-> Log(y_adj[i])]), y_min, out)

ExponentialFitFrom(x, y, y_min, out) ==
    ExponentialFitAdjusted(
        x, Vector([i \in DOMAIN x |-> RSub(y[i], RMul(Rat(99, 100), y_min))]), y_min, out)

\* IthDataProcessor::exponentialFit: the return value and the values the
\* reference parameters A, B, C0 (out on entry) hold on return
ExponentialFit(x, y, out) ==
    IF Len(x) < 2 THEN [ok |-> FALSE, A |-> out.A, B |-> out.B, C0 |-> out.C0]
    ELSE ExponentialFitFrom(x, y, MinElement(y), out)

Vandermonde(x, order) ==
    Vector([i \in DOMAIN x |-> Vector([j \in 1..(order + 1) |-> RPow(x[i], j - 1)])])

XtX(X, order) ==
    Vector([i \in 1..(order + 1) |->
        Vector([j \in 1..(order + 1) |->
            Sum(Vector([k \in DOMAIN X |-> RMul(X[k][i], X[k][j])]))])])

XtY(X, y, order) ==
    Vector([i \in 1..(order + 1) |->
        Sum(Vector([k \in DOMAIN X |-> RMul(X[k][i], y[k])]))])

AugmentedMatrix(A, b) == Vector([i \in DOMAIN A |-> Append(A[i], b[i])])

\* the pivot row of column i: the first row from i on of largest magnitude
RECURSIVE MaxRow(_, _, _, _)
MaxRow(M, i, j, maxRow) ==
    IF j > Len(M) THEN maxRow
    ELSE MaxRow(M, i, j + 1,
                IF RGt(RAbs(M[j][i]), RAbs(M[maxRow][i])) THEN j ELSE maxRow)

SwapRows(M, i, r) ==
    Vector([k \in DOMAIN M |-> IF k = i THEN M[r] ELSE IF k = r THEN M[i] ELSE M[k]])

EliminateRow(row, pivotRow, i, factor) ==
    Vector([k \in DOMAIN row |->
               IF k < i THEN row[k] ELSE RSub(row[k], RMul(pivotRow[k], factor))])

EliminateBelow(M, i) ==
    Vector([j \in DOMAIN M |->
               IF j <= i THEN M[j]
               ELSE EliminateRow(M[j], M[i], i, RDiv(M[j][i], M[i][i]))])

RECURSIVE GaussianElimination(_, _)
GaussianElimination(M, i) ==
    IF i > Len(M) THEN M
    ELSE GaussianElimination(
             EliminateBelow(SwapRows(M, i, MaxRow(M, i, i + 1, i)), i), i + 1)

RECURSIVE BackSubstitute(_, _, _)
RECURSIVE BackSubstituteRow(_, _, _, _)
BackSubstitute(M, i, c) ==
    IF i = 0 THEN c
    ELSE BackSubstituteRow(M, i, c, RDiv(M[i][Len(M) + 1], M[i][i]))

BackSubstituteRow(M, i, c, ci) ==
    BackSubstitute(
        Vector([j \in DOMAIN M |->
                   IF j < i THEN [M[j] EXCEPT ![Len(M) + 1] = RSub(@, RMul(M[j][i], ci))]
                   ELSE M[j]]),
        i - 1, [c EXCEPT ![i] = ci])

SolveNormalEquations(X, y, order) ==
    BackSubstitute(
        GaussianElimination(AugmentedMatrix(XtX(X, order), XtY(X, y, order)), 1),
        order + 1, Vector([i \in 1..(order + 1) |-> Zero]))

\* polynomialFit with the coefficients in descending order
PolynomialFitDescending(x, y, order) ==
    IF Len(x) <= order THEN [ok |-> FALSE, coefficients |-> <<>>]
    ELSE [ok |-> TRUE,
          coefficients |-> Reverse(SolveNormalEquations(Vandermonde(x, order), y, order))]

\* IthDataProcessor::polynomialFit: the return value and the coefficients,
\* lowest degree first (left as the caller passed them when the fit fails)
PolynomialFit(x, y, order) ==
    IF Len(x) <= order THEN [ok |-> FALSE, coefficients |-> <<>>]
    ELSE [ok |-> TRUE,
          coefficients |-> SolveNormalEquations(Vandermonde(x, order), y, order)]

EvaluatePolynomial(coefficients, t) ==
    Sum(Vector([j \in DOMAIN coefficients |-> RMul(coefficients[j], RPow(t, j - 1))]))

EvaluateExponential(A, B, C0, t) == RAdd(RMul(A, Exp(RMul(B, t))), C0)

LinspaceStep(start, step, numPoints) ==
    Vector([i \in 1..numPoints |-> RAdd(start, RMul(Num(i - 1), step))])

\* IthDataProcessor::linspace
Linspace(start, end, numPoints) ==
    LinspaceStep(start, RDiv(RSub(end, start), Num(numPoints - 1)), numPoints)

\* what T.first() and T.last() return; on an empty T the read is out of range
FitRange ==
    IF T = <<>> THEN {[start |-> g, end |-> g] : g \in Garbage}
    ELSE {[start |-> T[1], end |-> T[Len(T)]]}

NumPointsSet == {0, 1, 3}

OrderSet == {1, 2}

Called(op, numPoints, order, ok, first, second) ==
    [op |-> op, numPoints |-> numPoints, order |-> order, ok |-> ok,
     first |-> first, second |-> second, before |-> fitParams]

\* IthDataProcessor::applyExponentialFit(numPoints)
ApplyExponentialFit ==
    /\ pc \in {"ith", "fitted"}
    /\ \E numPoints \in NumPointsSet :
          \/ /\ T = <<>>
             /\ pc' = "crashed"
             /\ fitCall' = Called("applyExponentialFit", numPoints, 0, FALSE, <<>>, <<>>)
             /\ fitParams' = fitParams
          \/ \E r \in FitRange, g \in Garbage :
                \E fit \in {ExponentialFit(T, Ith, [A |-> g, B |-> g, C0 |-> g])} :
                   \E T_fit \in {Linspace(r.start, r.end, numPoints)} :
                      /\ pc' = "fitted"
                      /\ fitCall' =
                            Called("applyExponentialFit", numPoints, 0, fit.ok, T_fit,
                                   IF fit.ok
                                   THEN Vector([i \in DOMAIN T_fit |->
                                            EvaluateExponential(fit.A, fit.B, fit.C0, T_fit[i])])
                                   ELSE <<>>)
                      /\ fitParams' =
                            IF fit.ok THEN [A |-> fit.A, B |-> fit.B, C0 |-> fit.C0]
                            ELSE fitParams
    /\ oob' = (oob \/ T = <<>>)
    /\ UNCHANGED <<kind, files, scaleFactor, T, Ith, DR, polynomialCoefficients>>
    /\ UNCHANGED livVars
    /\ UNCHANGED outVars

\* IthDataProcessor::applyPolynomialFit(numPoints, order)
ApplyPolynomialFit ==
    /\ pc \in {"ith", "fitted"}
    /\ \E numPoints \in NumPointsSet, order \in OrderSet :
          \/ /\ T = <<>>
             /\ pc' = "crashed"
             /\ fitCall' = Called("applyPolynomialFit", numPoints, order, FALSE, <<>>, <<>>)
             /\ polynomialCoefficients' = polynomialCoefficients
          \/ \E r \in FitRange :
                \E fit \in {PolynomialFit(T, Ith, order)} :
                   \E T_fit \in {Linspace(r.start, r.end, numPoints)} :
                      /\ pc' = "fitted"
                      /\ fitCall' =
                            Called("applyPolynomialFit", numPoints, order, fit.ok, T_fit,
                                   IF fit.ok
                                   THEN Vector([i \in DOMAIN T_fit |->
                                            EvaluatePolynomial(fit.coefficients, T_fit[i])])
                                   ELSE <<>>)
                      /\ polynomialCoefficients' =
                            IF fit.ok THEN fit.coefficients ELSE polynomialCoefficients
    /\ oob' = (oob \/ T = <<>>)
    /\ UNCHANGED <<kind, files, scaleFactor, T, Ith, DR, fitParams>>
    /\ UNCHANGED livVars
    /\ UNCHANGED outVars

\* a call of exponentialFit(x, y, A, B, C0) on the arguments at hand
ExponentialFitCall ==
    /\ pc = "ith" /\ fitCall.op = "pending"
    /\ \E g \in Garbage :
          \E fit \in {ExponentialFit(fitCall.x, fitCall.y, [A |-> g, B |-> g, C0 |-> g])} :
             /\ fitCall' = [op |-> "exponentialFit", x |-> fitCall.x, y |-> fitCall.y,
                            ok |-> fit.ok,
                            out |-> [A |-> fit.A, B |-> fit.B, C0 |-> fit.C0],
                            before |-> fitParams]
             /\ fitParams' =
                   IF fit.ok THEN [A |-> fit.A, B |-> fit.B, C0 |-> fit.C0] ELSE fitParams
    /\ pc' = "fitted"
    /\ UNCHANGED <<kind, files, scaleFactor, oob, T, Ith, DR, polynomialCoefficients>>
    /\ UNCHANGED livVars
    /\ UNCHANGED outVars

Next ==
    \/ LIVGenerateVectors
    \/ LIVNormalizeData
    \/ SpectraGenerateVectors
    \/ SpectraEnsureAscendingX
    \/ SpectraNormalizeData
    \/ IthProcess

SpecFile == InitFile /\ [][Next]_vars

SpecSet == InitSet /\ [][Next]_vars

-----------------------------------------------------------------------------
(* The fits on their own *)

MaxPoints == 3      \* points handed to exponentialFit
MaxEntries == 3     \* entries of T, Ith and DR

Point(x, y) == <<Num(x), Num(y)>>

PointSet ==
    {Point(10, 100), Point(20, 101), Point(20, 103), Point(30, 103),
     Point(10, 0), Point(30, -2)}

StoredParams ==
    {[A |-> g, B |-> g, C0 |-> g] : g \in Garbage}
        \cup {[A |-> Num(2), B |-> Rat(1, 10), C0 |-> Num(100)]}

NoData ==
    /\ xList = <<>> /\ y1List = <<>> /\ y2List = <<>> /\ valueList = <<>>
    /\ traceFile = <<>>
    /\ minX = DblMax /\ maxX = DblLowest
    /\ minY1 = DblMax /\ maxY1 = DblLowest
    /\ preNormMaxY2 = DblLowest
    /\ centerModeData = <<>> /\ sideModeData = <<>>
    /\ oob = FALSE

\* exponentialFit as a function: any two vectors of one length, any stored
\* parameters
InitFit ==
    /\ kind = "LIV" /\ files = <<>> /\ scaleFactor = DefaultScaleFactor("LIV")
    /\ NoData
    /\ pc = "ith"
    /\ T = <<>> /\ Ith = <<>> /\ DR = <<>>
    /\ polynomialCoefficients = <<>>
    /\ fitParams \in StoredParams
    /\ \E points \in SeqsUpTo(PointSet, MaxPoints) :
          fitCall = [op |-> "pending", x |-> Column(points, 1), y |-> Column(points, 2)]
    /\ NoOutput

NextFit == ExponentialFitCall

SpecFit == InitFit /\ [][NextFit]_vars

Entry(t, i, d) == [T |-> Num(t), Ith |-> Num(i), DR |-> Num(d)]

EntrySet == {Entry(10, 100, 5), Entry(20, 101, 3), Entry(20, 103, 0), Entry(30, 103, 2)}

\* an IthDataProcessor after process(): T ascending, one entry per surviving trace
InitApply ==
    /\ kind = "LIV" /\ files = <<>> /\ scaleFactor = DefaultScaleFactor("LIV")
    /\ NoData
    /\ pc = "ith"
    /\ \E entries \in SeqsUpTo(EntrySet, MaxEntries) :
          /\ \A i, j \in DOMAIN entries : i < j => RLe(entries[i].T, entries[j].T)
          /\ T = Field(entries, "T")
          /\ Ith = Field(entries, "Ith")
          /\ DR = Field(entries, "DR")
    /\ \E g \in Garbage : fitParams = [A |-> g, B |-> g, C0 |-> g]
    /\ polynomialCoefficients = <<>>
    /\ fitCall = NoCall
    /\ NoOutput

NextApply == ApplyExponentialFit \/ ApplyPolynomialFit

SpecApply == InitApply /\ [][NextApply]_vars

-----------------------------------------------------------------------------
(* Axis steps of the plots *)

\* no processor is involved
NoProcessor ==
    /\ kind = "LIV" /\ files = <<>> /\ scaleFactor = DefaultScaleFactor("LIV")
    /\ NoData
    /\ pc = "idle"
    /\ T = <<>> /\ Ith = <<>> /\ DR = <<>>
    /\ fitParams = NoParams
    /\ polynomialCoefficients = <<>>
    /\ fitCall = NoCall

Ceil(a) == -((-a.n) \div a.d)

RECURSIVE TenTo(_)
TenTo(k) ==
    IF k = 0 THEN Num(1)
    ELSE IF k > 0 THEN RMul(Num(10), TenTo(k - 1))
    ELSE RDiv(TenTo(k + 1), Num(10))

\* std::floor(std::log10(a)) for a finite a > 0
RECURSIVE Log10Floor(_)
Log10Floor(a) ==
    IF RGe(a, Num(10)) THEN Log10Floor(RDiv(a, Num(10))) + 1
    ELSE IF RLt(a, Num(1)) THEN Log10Floor(RMul(a, Num(10))) - 1
    ELSE 0

\* const std::vector<double> steps
NiceSteps == <<Num(1), Num(2), Rat(5, 2), Num(5), Num(10)>>

\* the loop over the candidate steps from candidate i on, and the fallback
RECURSIVE NiceStepFrom(_, _, _, _, _)
NiceStepFrom(steps, i, range, magnitude, maxTicks) ==
    IF i > Len(steps) THEN RMul(Num(10), magnitude)
    ELSE IF RLe(RDiv(range, RMul(steps[i], magnitude)), Num(maxTicks))
    THEN RMul(steps[i], magnitude)
    ELSE NiceStepFrom(steps, i + 1, range, magnitude, maxTicks)

\* LIVChooseNiceStep with the candidate 2.5 left out
LIVChooseNiceStepWholeSteps(minVal, maxVal, maxTicks) ==
    IF RLe(RSub(maxVal, minVal), Zero) THEN Num(1)
    ELSE NiceStepFrom(<<Num(1), Num(2), Num(5), Num(10)>>, 1, RSub(maxVal, minVal),
                      TenTo(Log10Floor(RDiv(RSub(maxVal, minVal), Num(maxTicks)))),
                      maxTicks)

\* LIVGracePlot::chooseNiceStep
LIVChooseNiceStep(minVal, maxVal, maxTicks) ==
    IF RLe(RSub(maxVal, minVal), Zero) THEN Num(1)
    ELSE NiceStepFrom(NiceSteps, 1, RSub(maxVal, minVal),
                      TenTo(Log10Floor(RDiv(RSub(maxVal, minVal), Num(maxTicks)))),
                      maxTicks)

\* IthGracePlot::chooseNiceStep
IthChooseNiceStep(minVal, maxVal, maxTicks) ==
    IF RLe(RSub(maxVal, minVal), Zero) THEN Num(1)
    ELSE NiceStepFrom(NiceSteps, 1, RSub(maxVal, minVal),
                      TenTo(Log10Floor(RDiv(RSub(maxVal, minVal), Num(maxTicks)))),
                      maxTicks)

MaxTicks == 8       \* largest maxTicks tried

\* axis limits tried
LimitSet == {Num(0), Rat(1, 2), Num(3), Rat(7, 200), Num(97), Num(100), Num(-40)}

\* the two copies of chooseNiceStep as functions: any limits, any maxTicks >= 1
InitStep ==
    /\ NoProcessor
    /\ conv = NoConv /\ sheet = NoSheet /\ collectedData = NoCollectedData /\ wizard = NoWizard
    /\ \E minVal \in LimitSet, maxVal \in LimitSet, maxTicks \in 1..MaxTicks :
          plot = [op |-> "chooseNiceStep", minVal |-> minVal, maxVal |-> maxVal,
                  maxTicks |-> maxTicks, liv |-> <<>>, ith |-> <<>>]

\* a call of LIVGracePlot::chooseNiceStep on the arguments at hand
LIVChooseNiceStepCall ==
    /\ plot.op = "chooseNiceStep" /\ plot.liv = <<>>
    /\ plot' = [plot EXCEPT
                   !.liv = <<LIVChooseNiceStep(plot.minVal, plot.maxVal, plot.maxTicks)>>]
    /\ UNCHANGED <<conv, sheet, collectedData, wizard>>
    /\ UNCHANGED procVars

\* a call of IthGracePlot::chooseNiceStep on the arguments at hand
IthChooseNiceStepCall ==
    /\ plot.op = "chooseNiceStep" /\ plot.ith = <<>>
    /\ plot' = [plot EXCEPT
                   !.ith = <<IthChooseNiceStep(plot.minVal, plot.maxVal, plot.maxTicks)>>]
    /\ UNCHANGED <<conv, sheet, collectedData, wizard>>
    /\ UNCHANGED procVars

NextStep == LIVChooseNiceStepCall \/ IthChooseNiceStepCall

SpecStep == InitStep /\ [][NextStep]_vars

-----------------------------------------------------------------------------
(* Colours of the traces in the plots *)

\* An unsigned int is kept as its two 16-bit halves: the value hi * 65536 + lo.
Half == 65536

U32(n) == [hi |-> (n \div Half) % Half, lo |-> n % Half]

U32Add(a, b) ==
    [hi |-> (a.hi + b.hi + ((a.lo + b.lo) \div Half)) % Half, lo |-> (a.lo + b.lo) % Half]

U32Sub(a, b) ==
    [hi |-> (a.hi - b.hi - (IF a.lo < b.lo THEN 1 ELSE 0)) % Half,
     lo |-> (a.lo - b.lo) % Half]

\* (i <= 14) ? i + 1 : 15 - i + 1, computed in unsigned int
SubgraphColor(i) ==
    IF i <= 14 THEN U32Add(U32(i), U32(1))
    ELSE U32Add(U32Sub(U32(15), U32(i)), U32(1))

\* the colours "@map color" defines in setColors
ColorTable == {U32(c) : c \in 0..15}

MaxTraces == 18     \* most traces of a plotted set

\* the subgraph loops of a plot over numberOfTraces traces: none has run
Subgraphs(op, numberOfTraces) ==
    [op |-> op, numberOfTraces |-> numberOfTraces,
     graph |-> IF numberOfTraces = 0 THEN "done" ELSE "g0", i |-> 0, colors |-> <<>>]

InitColor ==
    /\ NoProcessor
    /\ conv = NoConv /\ sheet = NoSheet /\ collectedData = NoCollectedData /\ wizard = NoWizard
    /\ \E op \in {"plot_liv", "plot_spectra_waterfall"}, n \in 0..MaxTraces :
          plot = Subgraphs(op, n)

\* one pass of a subgraph loop: trace plot.i of graph plot.graph gets its colour;
\* after the last trace the next loop (then) is entered
SetSubgraphColor(then) ==
    plot' = [plot EXCEPT
                !.colors = Append(@, [graph |-> plot.graph, i |-> plot.i,
                                      color |-> SubgraphColor(plot.i)]),
                !.i = IF plot.i + 1 = plot.numberOfTraces THEN 0 ELSE plot.i + 1,
                !.graph = IF plot.i + 1 = plot.numberOfTraces THEN then ELSE @]

\* LIVGracePlot::plot_liv: the subgraph loop of graph g0
LIVSubgraphG0 ==
    /\ plot.op = "plot_liv" /\ plot.graph = "g0"
    /\ SetSubgraphColor("g1")
    /\ UNCHANGED <<conv, sheet, collectedData, wizard>>
    /\ UNCHANGED procVars

\* LIVGracePlot::plot_liv: the subgraph loop of graph g1
LIVSubgraphG1 ==
    /\ plot.op = "plot_liv" /\ plot.graph = "g1"
    /\ SetSubgraphColor("done")
    /\ UNCHANGED <<conv, sheet, collectedData, wizard>>
    /\ UNCHANGED procVars

\* SpectraGracePlot::plot_spectra_waterfall: the subgraph loop
SpectraSubgraph ==
    /\ plot.op = "plot_spectra_waterfall" /\ plot.graph = "g0"
    /\ SetSubgraphColor("done")
    /\ UNCHANGED <<conv, sheet, collectedData, wizard>>
    /\ UNCHANGED procVars

NextColor == LIVSubgraphG0 \/ LIVSubgraphG1 \/ SpectraSubgraph

SpecColor == InitColor /\ [][NextColor]_vars

-----------------------------------------------------------------------------
(* Text: a string is the sequence of its characters *)

Letters ==
    {"a", "b", "c", "d", "e", "f", "g", "h", "i", "j", "k", "l", "m",
     "n", "o", "p", "q", "r", "s", "t", "u", "v", "w", "x", "y", "z",
     "A", "B", "C", "D", "E", "F", "G", "H", "I", "J", "K", "L", "M",
     "N", "O", "P", "Q", "R", "S", "T", "U", "V", "W", "X", "Y", "Z"}

\* the characters \w of a regular expression matches
WordChars == Letters \cup Range(Digits) \cup {"_"}

Spaces == {" ", "\n", "\t", "\r"}

\* QString::indexOf(p, from): the first position at or after from, 0 if none
IndexOf(s, p, from) ==
    LET hits == {j \in from..(Len(s) - Len(p) + 1) : SubSeq(s, j, j + Len(p) - 1) = p}
    IN  IF hits = {} THEN 0 ELSE CHOOSE j \in hits : \A k \in hits : j <= k

\* QString::lastIndexOf(p)
LastIndexOf(s, p) ==
    LET hits == {j \in 1..(Len(s) - Len(p) + 1) : SubSeq(s, j, j + Len(p) - 1) = p}
    IN  IF hits = {} THEN 0 ELSE CHOOSE j \in hits : \A k \in hits : k <= j

Contains(s, p) == IndexOf(s, p, 1) # 0

StartsWith(s, p) == Len(s) >= Len(p) /\ SubSeq(s, 1, Len(p)) = p

\* QString::replace(before, after): every occurrence, from the left
RECURSIVE Replace(_, _, _)
Replace(s, before, after) ==
    LET j == IndexOf(s, before, 1)
    IN  IF j = 0 THEN s
        ELSE SubSeq(s, 1, j - 1) \o after
             \o Replace(SubSeq(s, j + Len(before), Len(s)), before, after)

\* QString::trimmed
Trimmed(s) ==
    LET inked == {i \in DOMAIN s : s[i] \notin Spaces}
    IN  IF inked = {} THEN <<>>
        ELSE SubSeq(s, CHOOSE i \in inked : \A k \in inked : i <= k,
                       CHOOSE i \in inked : \A k \in inked : k <= i)

\* QString::split(sep, Qt::SkipEmptyParts)
RECURSIVE Split(_, _)
Split(s, sep) ==
    LET j == IndexOf(s, sep, 1)
        first == IF j = 0 THEN s ELSE SubSeq(s, 1, j - 1)
        rest == IF j = 0 THEN <<>> ELSE Split(SubSeq(s, j + Len(sep), Len(s)), sep)
    IN  IF s = <<>> THEN <<>>
        ELSE IF first = <<>> THEN rest
        ELSE <<first>> \o rest

\* QString::section(sep, 1): the text after the first separator
SectionAfter(s, sep) ==
    LET j == IndexOf(s, <<sep>>, 1)
    IN  IF j = 0 THEN <<>> ELSE SubSeq(s, j + 1, Len(s))

\* QString::section(sep, 0, 0): the text before the first separator
SectionBefore(s, sep) ==
    LET j == IndexOf(s, <<sep>>, 1)
    IN  IF j = 0 THEN s ELSE SubSeq(s, 1, j - 1)

\* the decimal digits of a natural number
RECURSIVE Decimal(_)
Decimal(n) == IF n < 10 THEN <<Digits[n + 1]>> ELSE Append(Decimal(n \div 10), Digits[(n % 10) + 1])

\* operator<< of a double on a stream set to std::fixed and setprecision(1);
\* a tie is rounded to the even digit
Fixed1(a) ==
    IF IsNaN(a) THEN <<"n", "a", "n">>
    ELSE IF IsInf(a) THEN (IF a.n < 0 THEN <<"-">> ELSE <<>>) \o <<"i", "n", "f">>
    ELSE LET scaled == Abs(a.n) * 10
             down == scaled \div a.d
             twice == 2 * (scaled % a.d)
             tenths == IF twice > a.d \/ (twice = a.d /\ down % 2 = 1) THEN down + 1 ELSE down
         IN  (IF a.n < 0 THEN <<"-">> ELSE <<>>)
             \o Decimal(tenths \div 10) \o <<".">> \o Decimal(tenths % 10)

-----------------------------------------------------------------------------
(* IthGracePlot::plot_Ith_vs_T *)

NumFitPoints == 50

MilliLimit == Rat(99, 10)

Headroom == Rat(105, 100)

Thousand == Num(1000)

Scaled(values, factor) == Vector([i \in DOMAIN values |-> RMul(values[i], factor)])

\* area_cm2 = (w * 1e-4) * (l * 0.1), w in micrometres and l in millimetres
AreaCm2(w, l) == RMul(RMul(Num(w), Rat(1, 10000)), RMul(Num(l), Rat(1, 10)))

\* Amperes without the division by 1000
AmperesAsDisplayed(value, convertToMilli) == value

Amperes(value, convertToMilli) == IF convertToMilli THEN RDiv(value, Thousand) ELSE value

\* the s1 legend: the parameters after the unit conversion, and the current
\* densities computed from them
IthLegend(fit, convertToMilli, area) ==
    LET A == IF convertToMilli THEN RMul(fit.A, Thousand) ELSE fit.A
        C0 == IF convertToMilli THEN RMul(fit.C0, Thousand) ELSE fit.C0
    IN [C0 |-> C0, A |-> A, T0 |-> RDiv(Num(1), fit.B),
        J_C0 |-> RDiv(Amperes(C0, convertToMilli), area),
        J_A |-> RDiv(Amperes(A, convertToMilli), area)]

NoLegend == [C0 |-> NaN, A |-> NaN, T0 |-> NaN, J_C0 |-> NaN, J_A |-> NaN]

(* The fit legend: IthGracePlot writes it, DataSheetGenerator reads it back *)

IthLegendHead == <<"\"", "\\", "q", "I", "\\", "Q", "\\", "s", "t", "h", "\\", "N", "(", "T", ")", " ", 
      "=", " ">>

IthLegendExp == <<" ", "e", "x", "p", "(", "\\", "q", "T", "\\", "Q", " ", "/", " ">>

IthLegendUnit == <<")", " ", "[", "m", "A", "]">>

JthLegendHead == <<"\\", "q", "J", "\\", "Q", "\\", "s", "t", "h", "\\", "N", "(", "T", ")", " ", "=", 
      " ">>

JthLegendExp == <<" ", "e", "x", "p", "(", " ", " ", "\\", "q", "T", "\\", "Q", "/", " ">>

JthLegendUnit == <<")", " ", "[", "A", " ", "c", "m", "\\", "S", "-", "2", "\\", "N", "]", "\"">>

LegendPlus == <<" ", "+", " ">>

LegendBreak == <<"\\", "n", "\\", "n">>

\* the legend with one line break between the two formulas
IthLegendTextOneBreak(legend) ==
    IthLegendHead \o Fixed1(legend.C0) \o LegendPlus \o Fixed1(legend.A)
    \o IthLegendExp \o Fixed1(legend.T0) \o IthLegendUnit \o <<"\\", "n">>
    \o JthLegendHead \o Fixed1(legend.J_C0) \o LegendPlus \o Fixed1(legend.J_A)
    \o JthLegendExp \o Fixed1(legend.T0) \o JthLegendUnit

\* the text the stream oss holds
IthLegendText(legend) ==
    IthLegendHead \o Fixed1(legend.C0) \o LegendPlus \o Fixed1(legend.A)
    \o IthLegendExp \o Fixed1(legend.T0) \o IthLegendUnit \o LegendBreak
    \o JthLegendHead \o Fixed1(legend.J_C0) \o LegendPlus \o Fixed1(legend.J_A)
    \o JthLegendExp \o Fixed1(legend.T0) \o JthLegendUnit

SubgraphS0 ==
    <<<<" ", "@", " ", "s", "0", " ", "l", "i", "n", "e", " ", "l", "i", "n", "e", "w", 
        "i", "d", "t", "h", " ", "7", ".", "0", "0", "0", "0", "0", "0">>,
      <<"@", " ", "s", "0", " ", "l", "i", "n", "e", " ", "c", "o", "l", "o", "r", " ", "1">>,
      <<"@", " ", "s", "0", " ", "l", "e", "g", "e", "n", "d", " ", "\"", " ", "E", "x", 
        "p", "e", "r", "i", "m", "e", "n", "t", "a", "l", " ", "d", "a", "t", "a", " ", "\"">>>>

\* GracePlot::setSubgraph(file, "s1", 7, "1", "9", legend): the lines written
SubgraphS1(legend) ==
    <<<<" ", "@", " ", "s", "1", " ", "l", "i", "n", "e", " ", "l", "i", "n", "e", "w", 
        "i", "d", "t", "h", " ", "7", ".", "0", "0", "0", "0", "0", "0">>,
      <<"@", " ", "s", "1", " ", "l", "i", "n", "e", " ", "c", "o", "l", "o", "r", " ", "9">>,
      <<"@", " ", "s", "1", " ", "l", "e", "g", "e", "n", "d", " ">> \o legend,
      <<"@", " ", "s", "1", " ", "l", "i", "n", "e", " ", "l", "i", "n", "e", "s", "t", 
        "y", "l", "e", " ", "1">>>>

GraphSetup ==
    <<<<"@", " ", "l", "e", "g", "e", "n", "d", " ", "o", "n", " ">>,
      <<"@", " ", "l", "e", "g", "e", "n", "d", " ", "0", ".", "1", "8", ",", " ", "0", 
        ".", "8", "6", " ">>>>

\* the lines of the .agr file that carry settings
AgrLines(s1, legend) ==
    GraphSetup \o SubgraphS0 \o (IF s1 THEN SubgraphS1(IthLegendText(legend)) ELSE <<>>)

\* legendText after the Grace markup is removed
CleanLegend(legendText) ==
    Replace(Replace(Replace(Replace(Replace(Replace(legendText,
        <<"\\", "q">>, <<>>),
        <<"\\", "Q">>, <<>>),
        <<"\\", "N">>, <<>>),
        <<"\\", "S", "-", "2">>, <<"^", "{", "-", "2", "}">>),
        <<"\\", "S">>, <<>>),
        <<"\\", "n">>, <<"\n">>)

IsBoundary(s, i) ==
    LET before == i > 1 /\ s[i - 1] \in WordChars
        after == i <= Len(s) /\ s[i] \in WordChars
    IN  before # after

\* formula.replace(QRegularExpression("\\bexp\\b"), "\\exp")
RECURSIVE ReplaceExp(_, _)
ReplaceExp(s, from) ==
    LET j == IndexOf(s, <<"e", "x", "p">>, from)
    IN  IF j = 0 THEN s
        ELSE IF IsBoundary(s, j) /\ IsBoundary(s, j + 3)
        THEN ReplaceExp(SubSeq(s, 1, j - 1) \o <<"\\">> \o SubSeq(s, j, Len(s)), j + 4)
        ELSE ReplaceExp(s, j + 1)

\* the matches of \[(.*?)\] in formula, from the left
RECURSIVE UnitMatches(_, _)
UnitMatches(formula, from) ==
    LET open == IndexOf(formula, <<"[">>, from)
        close == IF open = 0 THEN 0 ELSE IndexOf(formula, <<"]">>, open + 1)
    IN  IF open = 0 \/ close = 0 THEN <<>>
        ELSE <<SubSeq(formula, open, close)>> \o UnitMatches(formula, close + 1)

RECURSIVE WrapEach(_, _)
WrapEach(formula, matches) ==
    IF matches = <<>> THEN formula
    ELSE WrapEach(Replace(formula, Head(matches),
                          <<"~", "\\", "m", "a", "t", "h", "r", "m", "{">>
                          \o SubSeq(Head(matches), 2, Len(Head(matches)) - 1) \o <<"}">>),
                  Tail(matches))

\* the lambda wrapUnits
WrapUnits(formula) == WrapEach(formula, UnitMatches(formula, 1))

LatexFormula(formula) == WrapUnits(ReplaceExp(Trimmed(SectionAfter(formula, "=")), 1))

\* what is returned for a legend line with its two quotes at first and last
FormulaOfLegendLine(line, first, last) ==
    LET formulas == Split(CleanLegend(SubSeq(line, first + 1, last - 1)), <<"\n", "\n">>)
    IN  IF Len(formulas) < 2 THEN <<>>
        ELSE LatexFormula(formulas[1]) \o <<",", " ">> \o LatexFormula(formulas[2])

IsLegendLine(line) ==
    /\ StartsWith(line, <<"@">>)
    /\ Contains(line, <<"s", "1">>)
    /\ Contains(line, <<"l", "e", "g", "e", "n", "d">>)

\* the loop over the lines of the file, from line k on
RECURSIVE ParseFrom(_, _)
ParseFrom(lines, k) ==
    IF k > Len(lines) THEN <<>>
    ELSE LET line == Trimmed(lines[k])
             first == IndexOf(line, <<"\"">>, 1)
             last == LastIndexOf(line, <<"\"">>)
         IN  IF ~IsLegendLine(line) THEN ParseFrom(lines, k + 1)
             ELSE IF first = 0 \/ last = 0 \/ first >= last THEN ParseFrom(lines, k + 1)
             ELSE FormulaOfLegendLine(line, first, last)

\* DataSheetGenerator::parseIthFormulaFromAgrFile on a file (opened or not)
ParseIthFormulaFromAgrFile(file) ==
    IF ~file.opened THEN <<>> ELSE ParseFrom(file.lines, 1)

IthAxis(Ith_min, Ith_max) ==
    LET Ith_step == IthChooseNiceStep(Ith_min, Ith_max, 7)
    IN [Ymin |-> RMul(Num(Floor(RDiv(Ith_min, Ith_step))), Ith_step),
        Ymax |-> RMul(Num(Ceil(RDiv(Ith_max, Ith_step))), Ith_step)]

IthPlot(w, l, fit, Ith_fit) ==
    LET padded == RMul(MaxElement(Ith), Headroom)
        convertToMilli == RLt(padded, MilliLimit)
        factor == IF convertToMilli THEN Thousand ELSE Num(1)
        axis == IthAxis(RMul(MinElement(Ith), factor), RMul(padded, factor))
        area == AreaCm2(w, l)
    IN [op |-> "plot_Ith_vs_T", opened |-> TRUE, w |-> w, l |-> l,
        convertToMilli |-> convertToMilli,
        ylabel |-> IF convertToMilli THEN "[mA]" ELSE "[A]",
        Ith_expt |-> Scaled(Ith, factor),
        Ith_fit |-> Scaled(Ith_fit, factor),
        s1 |-> Ith_fit # <<>>,
        legend |-> IF Ith_fit # <<>> THEN IthLegend(fit, convertToMilli, area) ELSE NoLegend,
        Ymin |-> axis.Ymin, Ymax |-> axis.Ymax,
        JYmin |-> RDiv(Amperes(axis.Ymin, convertToMilli), area),
        JYmax |-> RDiv(Amperes(axis.Ymax, convertToMilli), area),
        lines |-> AgrLines(Ith_fit # <<>>,
                           IF Ith_fit # <<>> THEN IthLegend(fit, convertToMilli, area)
                           ELSE NoLegend)]

WidthSet == {100, 150}

LengthSet == {2}

\* plot_Ith_vs_T(filename, data, w, l), called when data->canPlot()
PlotIthVsTCall ==
    /\ pc = "ith"
    /\ plot = NoPlot
    /\ Len(Ith) >= 2
    /\ \E w \in WidthSet, l \in LengthSet, opened \in BOOLEAN :
          \/ /\ ~opened
             /\ plot' = [op |-> "plot_Ith_vs_T", opened |-> FALSE, w |-> w, l |-> l]
             /\ UNCHANGED <<pc, fitParams, fitCall>>
          \/ /\ opened
             /\ \E fit \in {ExponentialFit(T, Ith, fitParams)} :
                   \E T_fit \in {Linspace(T[1], T[Len(T)], NumFitPoints)} :
                      \E Ith_fit \in {IF fit.ok
                                      THEN Vector([i \in DOMAIN T_fit |->
                                               EvaluateExponential(fit.A, fit.B, fit.C0, T_fit[i])])
                                      ELSE <<>>} :
                         /\ pc' = "fitted"
                         /\ fitCall' = Called("applyExponentialFit", NumFitPoints, 0,
                                              fit.ok, T_fit, Ith_fit)
                         /\ fitParams' = IF fit.ok
                                         THEN [A |-> fit.A, B |-> fit.B, C0 |-> fit.C0]
                                         ELSE fitParams
                         /\ plot' = IthPlot(w, l, IF fit.ok THEN fit ELSE fitParams, Ith_fit)
    /\ UNCHANGED <<kind, files, scaleFactor, oob, T, Ith, DR, polynomialCoefficients>>
    /\ UNCHANGED livVars
    /\ UNCHANGED <<conv, sheet, wizard>>

\* plot_Ith_vs_T on its own
PlotIthVsT == PlotIthVsTCall /\ UNCHANGED collectedData

Threshold(t, ith) == [T |-> Num(t), Ith |-> ith, DR |-> Num(3)]

ThresholdSet ==
    {Threshold(10, Num(9)), Threshold(20, Rat(37, 4)), Threshold(20, Rat(19, 2)),
     Threshold(30, Rat(19, 2)), Threshold(30, Num(10)), Threshold(10, Rat(19, 2))}

\* an IthDataProcessor after process() that can be plotted
InitPlot ==
    /\ kind = "LIV" /\ files = <<>> /\ scaleFactor = DefaultScaleFactor("LIV")
    /\ NoData
    /\ pc = "ith"
    /\ \E entries \in SeqsUpTo(ThresholdSet, MaxEntries) :
          /\ Len(entries) >= 2
          /\ \A i, j \in DOMAIN entries : i < j => RLe(entries[i].T, entries[j].T)
          /\ T = Field(entries, "T")
          /\ Ith = Field(entries, "Ith")
          /\ DR = Field(entries, "DR")
    /\ \E g \in Garbage : fitParams = [A |-> g, B |-> g, C0 |-> g]
    /\ polynomialCoefficients = <<>>
    /\ fitCall = NoCall
    /\ NoOutput

-----------------------------------------------------------------------------
(* FileConverter: the batch conversion of the .agr files of a directory *)

MaxAgrFiles == 2

\* generatePostScript: qtgrace.exe not found, not finished within 60 s,
\* finished with a non-zero exit code, or the .ps file written
PostScriptOutcomes == {"missing", "timeout", "exit", "ok"}

\* convertPsToPdf: gswin64c.exe not found, the PDF or the PNG run not
\* finished or failed, no Figures directory, or the files moved
PdfOutcomes ==
    {"missing", "pdfTimeout", "pdfExit", "pngTimeout", "pngExit", "noFigures", "moved"}

\* what generatePostScript returns: the path of the .ps file, or ""
PsFilePath(outcome, file) == IF outcome = "ok" THEN <<file, ".ps">> ELSE <<>>

\* the loop over agrFiles is left after the first file
BatchDoneAfterFirst(i, agrFiles) == i > 1

BatchDone(i, agrFiles) == i > agrFiles

Attempt(file, ps, pdf) == [file |-> file, ps |-> ps, pdf |-> pdf]

\* processAgrFilesToPsAndPdf(directory): the files are listed and the batch
\* is handed to the thread pool
ProcessAgrFilesToPsAndPdf ==
    /\ conv = NoConv
    /\ \E agrFiles \in 0..MaxAgrFiles :
          conv' = [op |-> "processAgrFilesToPsAndPdf", alive |-> TRUE,
                   agrFiles |-> agrFiles, at |-> "loop", i |-> 1, psFilePath |-> <<>>,
                   log |-> <<>>, queued |-> 0, delivered |-> 0]
    /\ UNCHANGED <<plot, sheet, collectedData, wizard>> /\ UNCHANGED procVars

\* the head of the loop: the next file, or the end of the batch
WorkerLoop ==
    /\ conv.op = "processAgrFilesToPsAndPdf"
    /\ conv.at = "loop"
    /\ conv' = [conv EXCEPT !.at =
                   IF BatchDone(conv.i, conv.agrFiles) \/ ~conv.alive THEN "emit"
                   ELSE "generatePostScript"]
    /\ UNCHANGED <<plot, sheet, collectedData, wizard>> /\ UNCHANGED procVars

\* self->generatePostScript(agrFilePath); a converter destroyed meanwhile is
\* used after its deletion
WorkerGeneratePostScript ==
    /\ conv.op = "processAgrFilesToPsAndPdf"
    /\ conv.at = "generatePostScript"
    /\ \/ \E outcome \in PostScriptOutcomes :
             \E path \in {PsFilePath(outcome, conv.i)} :
                conv' = IF path # <<>>
                        THEN [conv EXCEPT !.at = "convertPsToPdf", !.psFilePath = path]
                        ELSE [conv EXCEPT !.at = "loop", !.i = conv.i + 1,
                                          !.log = Append(conv.log,
                                                     Attempt(conv.i, outcome, "not started"))]
       \/ /\ ~conv.alive
          /\ conv' = [conv EXCEPT !.at = "crashed"]
    /\ UNCHANGED <<plot, sheet, collectedData, wizard>> /\ UNCHANGED procVars

\* self->convertPsToPdf(psFilePath)
WorkerConvertPsToPdf ==
    /\ conv.op = "processAgrFilesToPsAndPdf"
    /\ conv.at = "convertPsToPdf"
    /\ \/ \E outcome \in PdfOutcomes :
             conv' = [conv EXCEPT !.at = "loop", !.i = conv.i + 1, !.psFilePath = <<>>,
                                  !.log = Append(conv.log, Attempt(conv.i, "ok", outcome))]
       \/ /\ ~conv.alive
          /\ conv' = [conv EXCEPT !.at = "crashed"]
    /\ UNCHANGED <<plot, sheet, collectedData, wizard>> /\ UNCHANGED procVars

\* if (self) QMetaObject::invokeMethod(self, "conversionFinished", Qt::QueuedConnection)
WorkerEmit ==
    /\ conv.op = "processAgrFilesToPsAndPdf"
    /\ conv.at = "emit"
    /\ conv' = [conv EXCEPT !.at = "finished",
                            !.queued = IF conv.alive THEN conv.queued + 1 ELSE conv.queued]
    /\ UNCHANGED <<plot, sheet, collectedData, wizard>> /\ UNCHANGED procVars

\* the event loop of the converter's thread delivers the queued call
DeliverConversionFinished ==
    /\ conv.op = "processAgrFilesToPsAndPdf"
    /\ conv.alive
    /\ conv.queued > 0
    /\ conv' = [conv EXCEPT !.queued = conv.queued - 1, !.delivered = conv.delivered + 1]
    /\ UNCHANGED <<plot, sheet, collectedData, wizard>> /\ UNCHANGED procVars

\* the converter is deleted with its parent; its pending events go with it
DestroyConverter ==
    /\ conv.op = "processAgrFilesToPsAndPdf"
    /\ conv.alive
    /\ conv' = [conv EXCEPT !.alive = FALSE, !.queued = 0]
    /\ UNCHANGED <<plot, sheet, collectedData, wizard>> /\ UNCHANGED procVars

InitConvert == NoProcessor /\ NoOutput

Worker ==
    \/ WorkerLoop
    \/ WorkerGeneratePostScript
    \/ WorkerConvertPsToPdf
    \/ WorkerEmit

NextConvert ==
    \/ ProcessAgrFilesToPsAndPdf
    \/ Worker
    \/ DeliverConversionFinished
    \/ DestroyConverter

\* the thread pool runs the batch, each external process is waited for at
\* most 60 s, and the event loop handles the queued call
SpecConvert ==
    /\ InitConvert
    /\ [][NextConvert]_vars
    /\ WF_vars(Worker)
    /\ WF_vars(DeliverConversionFinished)

\* lines 86-110 of plot_Ith_vs_T: the legend of the fit and the s1 block
FitLegendPlot(w, l, fit, convertToMilli, s1) ==
    LET legend == IF s1 THEN IthLegend(fit, convertToMilli, AreaCm2(w, l)) ELSE NoLegend
    IN  [op |-> "legend", opened |-> TRUE, w |-> w, l |-> l,
         convertToMilli |-> convertToMilli, s1 |-> s1, legend |-> legend,
         lines |-> AgrLines(s1, legend)]

ParamValueSet == {Num(-3), Rat(-1, 20), Rat(1, 4), Num(12), Rat(2469, 20)}

RateSet == {Rat(1, 50), Rat(-1, 8), Zero}

\* a processor whose exponential fit has been applied
InitLegend ==
    /\ kind = "LIV" /\ files = <<>> /\ scaleFactor = DefaultScaleFactor("LIV")
    /\ NoData
    /\ pc = "fitted"
    /\ T = <<>> /\ Ith = <<>> /\ DR = <<>>
    /\ \E A \in ParamValueSet, B \in RateSet, C0 \in ParamValueSet :
          fitParams = [A |-> A, B |-> B, C0 |-> C0]
    /\ polynomialCoefficients = <<>>
    /\ fitCall = NoCall
    /\ NoOutput

\* the s1 block of plot_Ith_vs_T, written when Ith_fit is not empty
WriteFitLegend ==
    /\ pc = "fitted"
    /\ plot = NoPlot
    /\ \E w \in WidthSet, l \in LengthSet, convertToMilli \in BOOLEAN, s1 \in BOOLEAN :
          plot' = FitLegendPlot(w, l, fitParams, convertToMilli, s1)
    /\ UNCHANGED <<conv, sheet, collectedData, wizard>> /\ UNCHANGED procVars

\* parseIthFormulaFromAgrFile(path) on the file that plot_Ith_vs_T wrote
ParseIthFormula ==
    /\ plot.op \in {"plot_Ith_vs_T", "legend"}
    /\ sheet = NoSheet
    /\ sheet' = [op |-> "parseIthFormulaFromAgrFile",
                 formula |-> ParseIthFormulaFromAgrFile(
                                [opened |-> plot.opened,
                                 lines |-> IF plot.opened THEN plot.lines ELSE <<>>])]
    /\ UNCHANGED <<plot, conv, collectedData, wizard>> /\ UNCHANGED procVars

NextLegend == WriteFitLegend \/ ParseIthFormula

SpecLegend == InitLegend /\ [][NextLegend]_vars

NextPlot == PlotIthVsT \/ ParseIthFormula

SpecPlot == InitPlot /\ [][NextPlot]_vars

-----------------------------------------------------------------------------
(* DataSheetGenerator: the LaTeX datasheet as the sequence of its elements *)

\* QString::simplified
RECURSIVE Squeezed(_)
Squeezed(s) ==
    IF Len(s) < 2 THEN s
    ELSE IF s[1] \in Spaces /\ s[2] \in Spaces THEN Squeezed(Tail(s))
    ELSE <<IF s[1] \in Spaces THEN " " ELSE s[1]>> \o Squeezed(Tail(s))

Simplified(s) == Squeezed(Trimmed(s))

\* DataSheetGenerator::escapeLatex
EscapeLatex(str) ==
    Simplified(
    Replace(Replace(Replace(Replace(Replace(Replace(Replace(Replace(Replace(Replace(Replace(Replace(str,
        <<"\\">>, <<"\\", "t", "e", "x", "t", "b", "a", "c", "k", "s", "l", "a", "s", "h", "{", "}">>),
        <<"&">>, <<"\\", "&">>),
        <<"%">>, <<"\\", "%">>),
        <<"$">>, <<"\\", "$">>),
        <<"#">>, <<"\\", "#">>),
        <<"_">>, <<"\\", "_">>),
        <<"{">>, <<"\\", "{">>),
        <<"}">>, <<"\\", "}">>),
        <<"~">>, <<"\\", "t", "e", "x", "t", "a", "s", "c", "i", "i", "t", "i", "l", "d", "e", "{", 
          "}">>),
        <<"^">>, <<"\\", "t", "e", "x", "t", "a", "s", "c", "i", "i", "c", "i", "r", "c", "u", "m", 
          "{", "}">>),
        <<"\n">>, <<" ">>),
        <<"\r">>, <<" ">>))

\* DataSheetGenerator::trimTrailingBackslashes
RECURSIVE TrimTrailingBackslashes(_)
TrimTrailingBackslashes(s) ==
    IF s # <<>> /\ s[Len(s)] = "\\" THEN TrimTrailingBackslashes(SubSeq(s, 1, Len(s) - 1))
    ELSE s

NotAvailable == <<"N", "/", "A">>

\* QMap::value(key): the default-constructed string for a missing key
Value(metadata, key) == IF key \in DOMAIN metadata THEN metadata[key] ELSE <<>>

\* the lambdas get, getCW and getOrDefault
Get(metadata, key, def) ==
    LET val == Trimmed(Value(metadata, key))
    IN  IF val = <<>> THEN def ELSE EscapeLatex(val)

\* the lambda getPulsed of generatePerformanceSummary
GetPulsed(metadata, key, def) ==
    LET val == Trimmed(Value(metadata, key))
    IN  IF val = <<>>
        THEN (IF key = "pulsed_duty_cycle_liv" THEN <<"5">> ELSE def)
        ELSE EscapeLatex(val)

Element(what, name, args) == [kind |-> what, name |-> name, args |-> args]

Row(name, args) == Element("row", name, args)

Optional(present, elements) == IF present THEN elements ELSE <<>>

\* jthRaw of the performance summary
JthRaw(formula) == Trimmed(SectionBefore(Trimmed(SectionAfter(formula, ",")), "+"))

\* DataSheetGenerator::generatePerformanceSummary; the values taken from
\* params (author, date, dimensions) are left out of their rows
GeneratePerformanceSummary(in) ==
    LET pulsedFormula == ParseIthFormulaFromAgrFile(in.pulsedAgr)
        cwFormula == ParseIthFormulaFromAgrFile(in.cwAgr)
        pulsedPower == GetPulsed(in.pulsedMetadata, "pulsed_power_scale_liv", NotAvailable)
        cwPower == Get(in.cwMetadata, "cw_power_scale_liv", NotAvailable)
        pulsedDuty == GetPulsed(in.pulsedMetadata, "pulsed_duty_cycle_liv", NotAvailable)
        pulsedFreqRange == Trimmed(Value(in.params, "pulsed_ftir_fixed_temp_freq_range"))
        pulsedTmax == GetPulsed(in.pulsedMetadata, "pulsed_tmax_liv", NotAvailable)
        cwFreqRange == Trimmed(Value(in.params, "cw_ftir_fixed_temp_freq_range"))
        cwTmax == Get(in.cwMetadata, "cw_tmax_liv", NotAvailable)
    IN  <<Element("section", "Performance Summary", <<>>),
          Row("Characterised by:", <<>>),
          Row("Date of completion:", <<>>),
          Row("Ridge dimensions:", <<>>)>>
        \o Optional(pulsedFormula # <<>>,
                    <<Row("Threshold current density (pulsed):", <<JthRaw(pulsedFormula)>>)>>)
        \o Optional(pulsedPower # <<>>,
                    <<Row("Peak output power (pulsed):", <<pulsedPower, pulsedDuty>>)>>)
        \o Optional(pulsedFreqRange # <<>>,
                    <<Row("Emission frequency range (pulsed):", <<pulsedFreqRange>>)>>)
        \o Optional(pulsedTmax # <<>>,
                    <<Row("Maximum operating temperature (pulsed):", <<pulsedTmax, pulsedDuty>>)>>)
        \o Optional(cwFormula # <<>>,
                    <<Row("Threshold current density (c.w.):", <<JthRaw(cwFormula)>>)>>)
        \o Optional(cwPower # <<>>, <<Row("Peak output power (c.w.):", <<cwPower>>)>>)
        \o Optional(cwFreqRange # <<>>,
                    <<Row("Emission frequency range (c.w.):", <<cwFreqRange>>)>>)
        \o Optional(cwTmax # <<>>,
                    <<Row("Maximum operating temperature (c.w.):", <<cwTmax>>)>>)
        \o <<Element("clearpage", "", <<>>)>>

\* DataSheetGenerator::generateExperimentalNotes
GenerateExperimentalNotes(notes) ==
    Optional(Trimmed(notes) # <<>>, <<Element("notes", "Experimental Notes", <<notes>>)>>)

\* the rows appended when maxTemp != "N/A" && !maxTemp.isEmpty()
MaxTemperatureRow(maxTemp) ==
    Optional(maxTemp # NotAvailable /\ maxTemp # <<>>, <<Row("Max Temperature:", <<maxTemp>>)>>)

\* DataSheetGenerator::generatePulsedLIVTable
GeneratePulsedLIVTable(in) ==
    <<Element("table", "pulsed L-I-V", <<>>),
      Row("Cryostat:", <<Get(in.pulsedMetadata, "pulsed_cryostat_liv", NotAvailable)>>),
      Row("Detector:", <<Get(in.pulsedMetadata, "pulsed_detector_liv", NotAvailable)>>),
      Row("Power Supply:", <<Get(in.pulsedMetadata, "pulsed_ps_liv", NotAvailable)>>),
      Row("Drive Frequency:", <<Get(in.pulsedMetadata, "pulsed_drive_freq_liv", <<"1", "0">>)>>),
      Row("Duty Cycle:", <<Get(in.pulsedMetadata, "pulsed_duty_cycle_liv", <<"5">>)>>),
      Row("Gate Frequency:",
          <<Get(in.pulsedMetadata, "pulsed_gate_freq_liv", <<"1", "6", "7">>)>>),
      Row("Power Scale:", <<Get(in.pulsedMetadata, "pulsed_power_scale_liv", <<"1", "0", "0">>)>>)>>
    \o MaxTemperatureRow(Get(in.pulsedMetadata, "pulsed_tmax_liv", NotAvailable))

\* DataSheetGenerator::generateCWLIVTable
GenerateCWLIVTable(in) ==
    <<Element("table", "cw L-I-V", <<>>),
      Row("Cryostat:", <<Get(in.cwMetadata, "cw_cryostat_liv", NotAvailable)>>),
      Row("Detector:", <<Get(in.cwMetadata, "cw_detector_liv", NotAvailable)>>),
      Row("Power Supply:", <<Get(in.cwMetadata, "cw_ps_liv", NotAvailable)>>),
      Row("Power Scale:", <<Get(in.cwMetadata, "cw_power_scale_liv", <<"1", "0", "0">>)>>)>>
    \o MaxTemperatureRow(Get(in.cwMetadata, "cw_tmax_liv", NotAvailable))

\* DataSheetGenerator::generatePulsedSpectraTable
GeneratePulsedSpectraTable(in) ==
    <<Element("table", "pulsed spectra", <<>>),
      Row("Cryostat:", <<Get(in.pulsedMetadata, "pulsed_cryostat_spectra", NotAvailable)>>),
      Row("Detector:", <<Get(in.pulsedMetadata, "pulsed_detector_spectra", NotAvailable)>>),
      Row("Spectrometer:",
          <<Get(in.pulsedMetadata, "pulsed_spectrometer_spectra", NotAvailable)>>),
      Row("Power Supply:", <<Get(in.pulsedMetadata, "pulsed_ps_spectra", NotAvailable)>>),
      Row("Drive Frequency:",
          <<Get(in.pulsedMetadata, "pulsed_drive_freq_spectra", <<"1", "0">>)>>),
      Row("Duty Cycle:", <<Get(in.pulsedMetadata, "pulsed_duty_cycle_spectra", <<"5">>)>>),
      Row("Gate Frequency:",
          <<Get(in.pulsedMetadata, "pulsed_gate_freq_spectra", <<"1", "6", "7">>)>>)>>

\* DataSheetGenerator::generateCWSpectraTable
GenerateCWSpectraTable(in) ==
    <<Element("table", "cw spectra", <<>>),
      Row("Cryostat:", <<Get(in.cwMetadata, "cw_cryostat_spectra", NotAvailable)>>),
      Row("Detector:", <<Get(in.cwMetadata, "cw_detector_spectra", NotAvailable)>>),
      Row("Spectrometer:", <<Get(in.cwMetadata, "cw_spectrometer_spectra", NotAvailable)>>),
      Row("Power Supply:", <<Get(in.cwMetadata, "cw_ps_spectra", NotAvailable)>>)>>

\* the figure environments of generateCombinedLIVFigures and its three
\* siblings: one \includegraphics for each file that is there, and the caption
CombinedFigures(first, hasFirst, second, hasSecond, caption) ==
    Optional(hasFirst \/ hasSecond,
             Optional(hasFirst, <<Element("figure", first, <<>>)>>)
             \o Optional(hasSecond, <<Element("figure", second, <<>>)>>)
             \o <<Element("caption", "", caption)>>)

\* buildIthCaption: the two formulas of the legend, if there are any
IthCaption(formula) ==
    IF formula # <<>>
    THEN <<Trimmed(SectionBefore(formula, ",")), Trimmed(SectionAfter(formula, ","))>>
    ELSE <<>>

\* DataSheetGenerator::generateCombinedLIVFigures
GenerateCombinedLIVFigures(in, hasLIV, hasIth) ==
    LET freq == TrimTrailingBackslashes(Get(in.pulsedMetadata, "pulsed_drive_freq_liv", <<"1", "0">>))
        duty == TrimTrailingBackslashes(Get(in.pulsedMetadata, "pulsed_duty_cycle_liv", <<"5">>))
        gate == TrimTrailingBackslashes(
                    Get(in.pulsedMetadata, "pulsed_gate_freq_liv", <<"1", "6", "7">>))
        formula == ParseIthFormulaFromAgrFile(in.pulsedAgr)
    IN  CombinedFigures("pulsed_liv.pdf", hasLIV, "Ith_vs_T_pulsed_liv.pdf", hasIth,
                        Optional(hasLIV, <<freq, duty, gate>>)
                        \o Optional(hasIth, IthCaption(formula)))

\* DataSheetGenerator::generateCombinedCWLIVFigures
GenerateCombinedCWLIVFigures(in, hasLIV, hasIth) ==
    CombinedFigures("cw_liv.pdf", hasLIV, "Ith_vs_T_cw_liv.pdf", hasIth,
                    Optional(hasIth, IthCaption(ParseIthFormulaFromAgrFile(in.cwAgr))))

\* QMap::value(key, defaultValue)
ValueOr(metadata, key, def) == IF key \in DOMAIN metadata THEN metadata[key] ELSE def

\* DataSheetGenerator::generateCombinedFTIRFigures
GenerateCombinedFTIRFigures(in, hasVsI, hasVsT) ==
    LET tfix == Trimmed(ValueOr(in.pulsedMetadata, "tfix_spectra", <<"2", "0">>))
        ifix == Trimmed(Value(in.pulsedMetadata, "ifix_spectra"))
        freq == TrimTrailingBackslashes(
                    Get(in.pulsedMetadata, "pulsed_drive_freq_spectra", <<"1", "0">>))
        duty == TrimTrailingBackslashes(
                    Get(in.pulsedMetadata, "pulsed_duty_cycle_spectra", <<"5">>))
        gate == TrimTrailingBackslashes(
                    Get(in.pulsedMetadata, "pulsed_gate_freq_spectra", <<"1", "6", "7">>))
    IN  CombinedFigures("pulsed_ftir_vs_I.pdf", hasVsI, "pulsed_ftir_vs_T.pdf", hasVsT,
                        <<freq, duty, gate>> \o Optional(hasVsI, <<tfix>>)
                        \o Optional(hasVsT /\ ifix # <<>>, <<ifix>>))

\* DataSheetGenerator::generateCombinedCWFTIRFigures
GenerateCombinedCWFTIRFigures(in, hasVsI, hasVsT) ==
    LET tfix == Trimmed(ValueOr(in.cwMetadata, "tfix_spectra", <<"2", "0">>))
        ifix == Trimmed(Value(in.cwMetadata, "ifix_spectra"))
    IN  CombinedFigures("cw_ftir_vs_I.pdf", hasVsI, "cw_ftir_vs_T.pdf", hasVsT,
                        Optional(hasVsI, <<tfix>>) \o Optional(hasVsT /\ ifix # <<>>, <<ifix>>))

\* combinedNotes of the two spectra subsections
CombinedNotes(notesT, notesI) ==
    IF notesT # <<>> /\ notesI # <<>>
    THEN <<"a", ")", " ">> \o notesT
         \o <<"\n", "\n", "\\", "n", "o", "i", "n", "d", "e", "n", "t", " ", "b", ")", " ">>
         \o notesI
    ELSE IF notesT # <<>> THEN notesT
    ELSE notesI

\* DataSheetGenerator::generatePulsedLIVSubsection
GeneratePulsedLIVSubsection(in) ==
    LET hasLIV == "pulsed_liv.pdf" \in in.availableFigures
        hasIth == "Ith_vs_T_pulsed_liv.pdf" \in in.availableFigures
        notes == Trimmed(Value(in.pulsedMetadata, "pulsed_liv_experimental_notes"))
    IN  IF ~hasLIV /\ ~hasIth THEN <<>>
        ELSE <<Element("subsection", "L-I-V Characteristics", <<>>)>>
             \o GeneratePulsedLIVTable(in)
             \o GenerateCombinedLIVFigures(in, hasLIV, hasIth)
             \o Optional(notes # <<>>, GenerateExperimentalNotes(notes))
             \o <<Element("clearpage", "", <<>>)>>

\* DataSheetGenerator::generatePulsedSpectraSubsection
GeneratePulsedSpectraSubsection(in) ==
    LET hasVsI == "pulsed_ftir_vs_I.pdf" \in in.availableFigures
        hasVsT == "pulsed_ftir_vs_T.pdf" \in in.availableFigures
        notes == CombinedNotes(
                     Trimmed(Value(in.pulsedMetadata, "pulsed_spectra_t_experimental_notes")),
                     Trimmed(Value(in.pulsedMetadata, "pulsed_spectra_i_experimental_notes")))
    IN  IF ~hasVsI /\ ~hasVsT THEN <<>>
        ELSE <<Element("subsection", "Spectra Characteristics", <<>>)>>
             \o GeneratePulsedSpectraTable(in)
             \o GenerateCombinedFTIRFigures(in, hasVsI, hasVsT)
             \o Optional(notes # <<>>, GenerateExperimentalNotes(notes))
             \o <<Element("clearpage", "", <<>>)>>

\* DataSheetGenerator::generatePulsedSection
GeneratePulsedSection(in) ==
    LET liv == GeneratePulsedLIVSubsection(in)
        spectra == GeneratePulsedSpectraSubsection(in)
    IN  IF liv = <<>> /\ spectra = <<>> THEN <<>>
        ELSE <<Element("section", "Pulsed Characteristics", <<>>)>> \o liv \o spectra

\* DataSheetGenerator::generateCWLIVSubsection
GenerateCWLIVSubsection(in) ==
    LET hasLIV == "cw_liv.pdf" \in in.availableFigures
        hasIth == "Ith_vs_T_cw_liv.pdf" \in in.availableFigures
        notes == Trimmed(Value(in.cwMetadata, "cw_liv_experimental_notes"))
    IN  IF ~hasLIV /\ ~hasIth THEN <<>>
        ELSE <<Element("subsection", "L-I-V Characteristics", <<>>)>>
             \o GenerateCWLIVTable(in)
             \o GenerateCombinedCWLIVFigures(in, hasLIV, hasIth)
             \o Optional(notes # <<>>, GenerateExperimentalNotes(notes))
             \o <<Element("clearpage", "", <<>>)>>

\* DataSheetGenerator::generateCWSpectraSubsection
GenerateCWSpectraSubsection(in) ==
    LET hasVsI == "cw_ftir_vs_I.pdf" \in in.availableFigures
        hasVsT == "cw_ftir_vs_T.pdf" \in in.availableFigures
        notes == CombinedNotes(
                     Trimmed(Value(in.cwMetadata, "cw_spectra_t_experimental_notes")),
                     Trimmed(Value(in.cwMetadata, "cw_spectra_i_experimental_notes")))
    IN  IF ~hasVsI /\ ~hasVsT THEN <<>>
        ELSE <<Element("subsection", "Spectra Characteristics", <<>>)>>
             \o GenerateCWSpectraTable(in)
             \o GenerateCombinedCWFTIRFigures(in, hasVsI, hasVsT)
             \o Optional(notes # <<>>, GenerateExperimentalNotes(notes))
             \o <<Element("clearpage", "", <<>>)>>

\* generateCWSection with the heading written whatever the subsections are
GenerateCWSectionAlways(in) ==
    <<Element("section", "CW Characteristics", <<>>)>>
    \o GenerateCWLIVSubsection(in) \o GenerateCWSpectraSubsection(in)

\* DataSheetGenerator::generateCWSection
GenerateCWSection(in) ==
    LET liv == GenerateCWLIVSubsection(in)
        spectra == GenerateCWSpectraSubsection(in)
    IN  IF liv = <<>> /\ spectra = <<>> THEN <<>>
        ELSE <<Element("section", "CW Characteristics", <<>>)>>
             \o Optional(liv # <<>>, liv \o <<Element("clearpage", "", <<>>)>>)
             \o spectra

\* what generate() writes to the output file
Document(in) ==
    <<Element("header", "Datasheet", <<>>)>>
    \o GeneratePerformanceSummary(in)
    \o GeneratePulsedSection(in)
    \o GenerateCWSection(in)
    \o <<Element("footer", "", <<>>)>>

FigureNames ==
    {"pulsed_liv.pdf", "Ith_vs_T_pulsed_liv.pdf", "pulsed_ftir_vs_I.pdf", "pulsed_ftir_vs_T.pdf",
     "cw_liv.pdf", "Ith_vs_T_cw_liv.pdf", "cw_ftir_vs_I.pdf", "cw_ftir_vs_T.pdf"}

PulsedMetadataSet ==
    {[pulsed_tmax_liv |-> <<>>, pulsed_duty_cycle_liv |-> <<>>,
      pulsed_drive_freq_liv |-> <<>>, pulsed_gate_freq_liv |-> <<>>],
     [pulsed_tmax_liv |-> <<"7", "7">>, pulsed_duty_cycle_liv |-> <<"2", "%">>,
      pulsed_drive_freq_liv |-> <<"2", "0">>, pulsed_gate_freq_liv |-> <<"8", "0">>],
     [pulsed_tmax_liv |-> <<" ">>, pulsed_duty_cycle_liv |-> <<" ">>,
      pulsed_drive_freq_liv |-> <<"2", "0">>, pulsed_gate_freq_liv |-> <<>>],
     [pulsed_tmax_liv |-> NotAvailable, pulsed_duty_cycle_liv |-> <<>>,
      pulsed_drive_freq_liv |-> <<>>, pulsed_gate_freq_liv |-> <<"8", "0">>]}


Params == [pulsed_ftir_fixed_temp_freq_range |-> <<"2", ".", "1", "-", "3", ".", "4", " ", "T", "H", "z">>]

NoFile == [opened |-> FALSE, lines |-> <<>>]

\* an Ith_vs_T .agr file in GraceFigures, as plot_Ith_vs_T writes it
AgrFile ==
    [opened |-> TRUE,
     lines |-> AgrLines(TRUE, IthLegend([A |-> Rat(1, 4), B |-> Rat(1, 50), C0 |-> Num(12)],
                                        FALSE, AreaCm2(100, 2)))]

\* the c.w. metadata with the two Ith_vs_T files of GraceFigures
CWSet ==
    {[cwMetadata |-> [cw_tmax_liv |-> <<>>], pulsedAgr |-> NoFile, cwAgr |-> NoFile],
     [cwMetadata |-> [cw_tmax_liv |-> <<"4", "5">>], pulsedAgr |-> AgrFile, cwAgr |-> NoFile],
     [cwMetadata |-> [cw_tmax_liv |-> <<" ">>], pulsedAgr |-> AgrFile, cwAgr |-> AgrFile]}

\* a generator with its parameters and metadata set, and the directories
\* Figures and GraceFigures as the conversion left them
InitSheet ==
    /\ NoProcessor
    /\ plot = NoPlot /\ conv = NoConv /\ collectedData = NoCollectedData /\ wizard = NoWizard
    /\ \E figures \in SUBSET FigureNames, pulsed \in PulsedMetadataSet, cw \in CWSet :
          sheet = [op |-> "ready", availableFigures |-> figures, params |-> Params,
                   pulsedMetadata |-> pulsed, cwMetadata |-> cw.cwMetadata,
                   pulsedAgr |-> cw.pulsedAgr, cwAgr |-> cw.cwAgr,
                   opened |-> FALSE, document |-> <<>>]

\* DataSheetGenerator::generate
GenerateDataSheet ==
    /\ sheet.op = "ready"
    /\ \E opened \in BOOLEAN :
          sheet' = [sheet EXCEPT !.op = "generate", !.opened = opened,
                                 !.document = IF opened THEN Document(sheet) ELSE <<>>]
    /\ UNCHANGED <<plot, conv, collectedData, wizard>> /\ UNCHANGED procVars

NextSheet == GenerateDataSheet

SpecSheet == InitSheet /\ [][NextSheet]_vars

-----------------------------------------------------------------------------
(* polynomialFit as a function of its arguments *)

CoefficientSet == {Num(-2), Zero, Rat(1, 2)}

AbscissaSet == {Zero, Num(1), Num(-2)}

\* the vector the caller passes in, with what the processor has stored
CallerVectors == {<<>>, <<Num(7), Num(8)>>}

\* the points of the polynomial with the coefficients c at the places x
OnCurve(c, x) == Vector([i \in DOMAIN x |-> EvaluatePolynomial(c, x[i])])

InitPoly ==
    /\ kind = "LIV" /\ files = <<>> /\ scaleFactor = DefaultScaleFactor("LIV")
    /\ NoData
    /\ pc = "ith"
    /\ T = <<>> /\ Ith = <<>> /\ DR = <<>>
    /\ fitParams = NoParams
    /\ \E held \in CallerVectors, order \in OrderSet :
          \E c \in {s \in SeqsUpTo(CoefficientSet, order + 1) : Len(s) = order + 1},
             x \in SeqsUpTo(AbscissaSet, MaxPoints) :
             /\ polynomialCoefficients = held
             /\ fitCall = [op |-> "pending", c |-> c, x |-> x, y |-> OnCurve(c, x),
                           order |-> order, coefficients |-> held]
    /\ NoOutput

\* a call of polynomialFit(x, y, order, coefficients) on the arguments at hand
PolynomialFitCall ==
    /\ pc = "ith" /\ fitCall.op = "pending"
    /\ \E fit \in {PolynomialFit(fitCall.x, fitCall.y, fitCall.order)} :
          /\ fitCall' = [op |-> "polynomialFit", c |-> fitCall.c,
                         x |-> fitCall.x, y |-> fitCall.y, order |-> fitCall.order,
                         ok |-> fit.ok,
                         coefficients |-> IF fit.ok THEN fit.coefficients
                                          ELSE fitCall.coefficients,
                         before |-> polynomialCoefficients]
          /\ polynomialCoefficients' =
                IF fit.ok THEN fit.coefficients ELSE polynomialCoefficients
    /\ pc' = "fitted"
    /\ UNCHANGED <<kind, files, scaleFactor, oob, T, Ith, DR, fitParams>>
    /\ UNCHANGED livVars
    /\ UNCHANGED outVars

NextPoly == PolynomialFitCall

SpecPoly == InitPoly /\ [][NextPoly]_vars

-----------------------------------------------------------------------------
(* Step 4 of SpectraDataProcessor::generateVectors on longer traces *)

MaxSamples == 7     \* samples of a trace whose peaks are calculated

\* amplitudes of the samples
AmplitudeSet == {Num(0), Num(4)}

\* the frequencies of a trace of n samples, as read: ascending or descending
FrequencySet(n) ==
    {Vector([i \in 1..n |-> Num(i)]), Vector([i \in 1..n |-> Num(n + 1 - i)])}

\* the traces of the lists: one trace of MaxSamples samples, an empty trace
\* (a file without a valid line), or both
TraceListSet ==
    LET full == {[x |-> x, y1 |-> Vector(y)] :
                    x \in FrequencySet(MaxSamples),
                    y \in [1..MaxSamples -> AmplitudeSet]}
        none == [x |-> <<>>, y1 |-> <<>>]
    IN  {<<t>> : t \in full} \cup {<<t, none>> : t \in full} \cup {<<none>>}

InitPeaks ==
    /\ kind = "Spectra" /\ files = <<>> /\ scaleFactor = DefaultScaleFactor("Spectra")
    /\ \E traces \in TraceListSet :
          /\ xList = Field(traces, "x")
          /\ y1List = Field(traces, "y1")
          /\ valueList = [i \in 1..Len(traces) |-> <<"1">>]
          /\ traceFile = [i \in 1..Len(traces) |-> i]
    /\ y2List = <<>>
    /\ minX = DblMax /\ maxX = DblLowest
    /\ minY1 = DblMax /\ maxY1 = DblLowest
    /\ preNormMaxY2 = DblLowest
    /\ centerModeData = <<>> /\ sideModeData = <<>>
    /\ oob = FALSE
    /\ T = <<>> /\ Ith = <<>> /\ DR = <<>>
    /\ fitParams = NoParams
    /\ polynomialCoefficients = <<>>
    /\ fitCall = NoCall
    /\ pc = "peaks"
    /\ NoOutput

\* the loop over the traces that appends one centre peak and one vector of side
\* peaks per trace; a read outside an empty trace aborts it or yields some value
CalculatePeaks ==
    /\ kind = "Spectra" /\ pc = "peaks"
    /\ \E g \in Garbage :
       \E peaks \in {[i \in 1..Len(xList) |-> TracePeaks(xList[i], y1List[i], g)]} :
       \E empty \in {{i \in 1..Len(xList) : xList[i] = <<>>}} :
           /\ oob' = (empty # {})
           /\ \/ /\ centerModeData' = Field(peaks, "center")
                 /\ sideModeData' = Field(peaks, "side")
                 /\ pc' = "generated"
              \/ /\ empty # {}
                 /\ \E stop \in {(CHOOSE i \in empty : \A j \in empty : i <= j) - 1} :
                       /\ centerModeData' = SubSeq(Field(peaks, "center"), 1, stop)
                       /\ sideModeData' = SubSeq(Field(peaks, "side"), 1, stop)
                 /\ pc' = "crashed"
    /\ UNCHANGED <<kind, files, scaleFactor, xList, y1List, y2List, valueList,
                   traceFile, minX, maxX, minY1, maxY1, preNormMaxY2>>
    /\ UNCHANGED ithVars
    /\ UNCHANGED outVars

NextPeaks == CalculatePeaks

SpecPeaks == InitPeaks /\ [][NextPeaks]_vars

-----------------------------------------------------------------------------
(* LIVDataProcessor::normalizeData called again on the constructed processor *)

LineP == << <<"0", ".", "0", "2">>, <<"3">>, <<"-", "4">> >>        \* 0.02 3 -4

\* lines of the file: optical values 40, 1, 0 and -4
RenormLineSet == {LineB, LineE, LineD, LineP}

\* the scaleFactor argument: the default, a measured power, and the values 1
\* and 40 that some of the files have as reference
RenormScaleFactors == {Num(100), Rat(5, 2), Num(1), Num(40)}

InitRenorm ==
    /\ kind = "LIV"
    /\ files \in {<<File(Label10, TRUE, ls)>> : ls \in SeqsUpTo(RenormLineSet, MaxLines)}
    /\ scaleFactor \in RenormScaleFactors
    /\ Fresh
    /\ NoOutput

\* the public normalizeData() called on a processor the constructor has normalized
LIVNormalizeDataAgain ==
    /\ kind = "LIV" /\ pc = "done"
    /\ y2List' = IF y2List = <<>> THEN y2List
                 ELSE [i \in 1..Len(y2List) |->
                          [k \in 1..Len(y2List[i]) |-> NormalizedY2(y2List[i][k])]]
    /\ pc' = "renormalized"
    /\ UNCHANGED <<kind, files, scaleFactor, xList, y1List, valueList, traceFile,
                   minX, maxX, minY1, maxY1, preNormMaxY2, centerModeData,
                   sideModeData, oob>>
    /\ UNCHANGED ithVars
    /\ UNCHANGED outVars

NextRenorm == LIVGenerateVectors \/ LIVNormalizeData \/ LIVNormalizeDataAgain

SpecRenorm == InitRenorm /\ [][NextRenorm]_vars

-----------------------------------------------------------------------------
(* WizardGracePage::generateGraceImages: the threshold-current block of a
   LIV field *)

\* digit k after the decimal point of rem / d, and the remainder after it
RECURSIVE FractionDigits(_, _, _)
FractionDigits(rem, d, k) ==
    IF k = 0 THEN [digits |-> <<>>, rem |-> rem]
    ELSE LET rest == FractionDigits((rem * 10) % d, d, k - 1)
         IN  [digits |-> <<(rem * 10) \div d>> \o rest.digits, rem |-> rest.rem]

\* the decimal number whose digits are ds, plus one
RECURSIVE DigitsPlusOne(_)
DigitsPlusOne(ds) ==
    IF ds = <<>> THEN <<1>>
    ELSE IF ds[Len(ds)] < 9 THEN SubSeq(ds, 1, Len(ds) - 1) \o <<ds[Len(ds)] + 1>>
    ELSE LET up == DigitsPlusOne(SubSeq(ds, 1, Len(ds) - 1))
         IN  up \o <<0>>

\* the digits of a natural number, most significant first
RECURSIVE DigitsOf(_)
DigitsOf(n) == IF n < 10 THEN <<n>> ELSE Append(DigitsOf(n \div 10), n % 10)

\* QString::number(a, 'f', 2): two digits after the point, the nearest such
\* number, a tie going to the even digit
NumberF2(a) ==
    IF IsNaN(a) THEN <<"n", "a", "n">>
    ELSE IF IsInf(a) THEN (IF a.n < 0 THEN <<"-">> ELSE <<>>) \o <<"i", "n", "f">>
    ELSE LET whole == DigitsOf(Abs(a.n) \div a.d)
             frac == FractionDigits(Abs(a.n) % a.d, a.d, 2)
             all == whole \o frac.digits
             up == \/ 2 * frac.rem > a.d
                   \/ 2 * frac.rem = a.d /\ all[Len(all)] % 2 = 1
             shown == IF up THEN DigitsPlusOne(all) ELSE all
             text == [i \in 1..Len(shown) |-> Digits[shown[i] + 1]]
         IN  (IF a.n < 0 /\ \E i \in DOMAIN shown : shown[i] # 0 THEN <<"-">> ELSE <<>>)
             \o SubSeq(text, 1, Len(text) - 2) \o <<".">>
             \o SubSeq(text, Len(text) - 1, Len(text))

\* the keys the parameters are stored under, by field
ExpKeys(field) ==
    IF field = "Pulsed LIV"
    THEN [I_A |-> "pulsed_I_exp_A", I_B |-> "pulsed_I_exp_B", I_C0 |-> "pulsed_I_exp_C0",
          J_A |-> "pulsed_J_exp_A", J_B |-> "pulsed_J_exp_B", J_C0 |-> "pulsed_J_exp_C0"]
    ELSE [I_A |-> "cw_I_exp_A", I_B |-> "cw_I_exp_B", I_C0 |-> "cw_I_exp_C0",
          J_A |-> "cw_J_exp_A", J_B |-> "cw_J_exp_B", J_C0 |-> "cw_J_exp_C0"]

\* scale = 1e5 / (w * l)
DensityScale(w, l) == RDiv(Num(100000), Num(w * l))

\* the entries written after getExponentialFitParams(A, B, C0)
FitEntries(keys, params, scale) ==
    (keys.I_A :> NumberF2(params.A)) @@ (keys.I_B :> NumberF2(params.B))
    @@ (keys.I_C0 :> NumberF2(params.C0))
    @@ (keys.J_A :> NumberF2(RMul(params.A, scale)))
    @@ (keys.J_B :> NumberF2(RMul(params.B, scale)))
    @@ (keys.J_C0 :> NumberF2(RMul(params.C0, scale)))

LIVFields == {"Pulsed LIV", "CW LIV"}

\* the field being processed
FieldAtHand == CHOOSE field \in LIVFields : field \in DOMAIN collectedData

\* the block after the IthDataProcessor is constructed: plot and export when
\* canPlot(), skip otherwise
GenerateIthImages ==
    /\ pc = "ith"
    /\ plot = NoPlot
    /\ \/ /\ Len(Ith) < 2
          /\ pc' = "skipped"
          /\ UNCHANGED <<kind, files, scaleFactor, oob, livVars, ithVars, outVars>>
       \/ /\ PlotIthVsTCall
          /\ collectedData' =
                FitEntries(ExpKeys(FieldAtHand), fitParams', DensityScale(plot'.w, plot'.l))
                @@ collectedData

\* an IthDataProcessor after process(), of a field of collectedData
InitImages ==
    /\ kind = "LIV" /\ files = <<>> /\ scaleFactor = DefaultScaleFactor("LIV")
    /\ NoData
    /\ pc = "ith"
    /\ \E entries \in SeqsUpTo(ThresholdSet, MaxEntries) :
          /\ \A i, j \in DOMAIN entries : i < j => RLe(entries[i].T, entries[j].T)
          /\ T = Field(entries, "T")
          /\ Ith = Field(entries, "Ith")
          /\ DR = Field(entries, "DR")
    /\ \E g \in Garbage : fitParams = [A |-> g, B |-> g, C0 |-> g]
    /\ polynomialCoefficients = <<>>
    /\ fitCall = NoCall
    /\ plot = NoPlot /\ conv = NoConv /\ sheet = NoSheet /\ wizard = NoWizard
    /\ \E field \in LIVFields : collectedData = (field :> <<>>)

NextImages == GenerateIthImages

SpecImages == InitImages /\ [][NextImages]_vars

-----------------------------------------------------------------------------
(* "Generate Grace Images" pressed while a conversion is under way *)

MaxClicks == 2      \* times the button is pressed

\* the pages with the button, and the threads of the global thread pool
PageSet == {"WizardGracePage", "ProcessCustomPage"}

PoolThreads == {1, 2}

\* a batch handed to QtConcurrent::run: waiting for a thread of the pool
Batch(agrFiles) ==
    [agrFiles |-> agrFiles, at |-> "waiting", i |-> 1, queued |-> 0, delivered |-> 0,
     loadedBeside |-> 0]

\* the batches a thread of the pool is running
Running(batches) == {b \in DOMAIN batches : batches[b].at = "loop"}

InitTrigger ==
    /\ NoProcessor
    /\ plot = NoPlot /\ sheet = NoSheet /\ collectedData = NoCollectedData
    /\ wizard = NoWizard
    /\ \E page \in PageSet, threads \in PoolThreads :
          conv = [op |-> "generateGraceImages", page |-> page, threads |-> threads,
                  batches |-> <<>>, loads |-> 0]

\* the clicked() handler: the button is enabled whatever is running.  The
\* custom page returns when the directory has no .agr file; otherwise a new
\* FileConverter is created, connected and started.
GenerateGraceImages ==
    /\ conv.op = "generateGraceImages"
    /\ Len(conv.batches) < MaxClicks
    /\ \E agrFiles \in 0..MaxAgrFiles :
          /\ conv.page = "ProcessCustomPage" => agrFiles > 0
          /\ conv' = [conv EXCEPT !.batches = Append(conv.batches, Batch(agrFiles))]
    /\ UNCHANGED <<plot, sheet, collectedData, wizard>> /\ UNCHANGED procVars

\* a free thread of the pool takes the batch
StartBatch ==
    /\ conv.op = "generateGraceImages"
    /\ \E b \in DOMAIN conv.batches :
          /\ conv.batches[b].at = "waiting"
          /\ Cardinality(Running(conv.batches)) < conv.threads
          /\ conv' = [conv EXCEPT !.batches[b].at = "loop"]
    /\ UNCHANGED <<plot, sheet, collectedData, wizard>> /\ UNCHANGED procVars

\* one turn of the loop: generatePostScript and convertPsToPdf on the next
\* file of the directory
ConvertNextFile ==
    /\ conv.op = "generateGraceImages"
    /\ \E b \in DOMAIN conv.batches :
          /\ conv.batches[b].at = "loop"
          /\ ~BatchDone(conv.batches[b].i, conv.batches[b].agrFiles)
          /\ conv' = [conv EXCEPT !.batches[b].i = conv.batches[b].i + 1]
    /\ UNCHANGED <<plot, sheet, collectedData, wizard>> /\ UNCHANGED procVars

\* after the loop: conversionFinished is queued for the thread of the page
FinishBatch ==
    /\ conv.op = "generateGraceImages"
    /\ \E b \in DOMAIN conv.batches :
          /\ conv.batches[b].at = "loop"
          /\ BatchDone(conv.batches[b].i, conv.batches[b].agrFiles)
          /\ conv' = [conv EXCEPT !.batches[b].at = "finished", !.batches[b].queued = 1]
    /\ UNCHANGED <<plot, sheet, collectedData, wizard>> /\ UNCHANGED procVars

\* the connected lambda: loadGeneratedImagesFromFigures()
LoadGeneratedImages ==
    /\ conv.op = "generateGraceImages"
    /\ \E b \in DOMAIN conv.batches :
          /\ conv.batches[b].queued = 1
          /\ conv' = [conv EXCEPT !.batches[b].queued = 0,
                                  !.batches[b].delivered = 1,
                                  !.batches[b].loadedBeside =
                                      Cardinality(Running(conv.batches)),
                                  !.loads = conv.loads + 1]
    /\ UNCHANGED <<plot, sheet, collectedData, wizard>> /\ UNCHANGED procVars

NextTrigger ==
    \/ GenerateGraceImages
    \/ StartBatch
    \/ ConvertNextFile
    \/ FinishBatch
    \/ LoadGeneratedImages

SpecTrigger == InitTrigger /\ [][NextTrigger]_vars

-----------------------------------------------------------------------------
(* A file field of the wizard: WizardFileFieldWidget and its WizardField *)

MaxShown == 2       \* file widgets shown in the list at a time

FileNameSet == {"a.txt", "b.txt"}

\* the text typed beside a file
FileValueSet == {<<>>, <<"1", "0">>, <<"2", "0">>}

FieldName == "Pulsed LIV"

\* a map without the key
Without(map, key) == [k \in DOMAIN map \ {key} |-> map[k]]

FileWidget(fileName, fileVariableValue) ==
    [fileName |-> fileName, fileVariableValue |-> fileVariableValue]

\* the field of a new wizard: no file widget, an empty fileMap, and the value
\* the WizardField constructor sets
InitWizard ==
    /\ NoProcessor
    /\ plot = NoPlot /\ conv = NoConv /\ sheet = NoSheet
    /\ collectedData = NoCollectedData
    /\ wizard = [op |-> "fileField", shown |-> <<>>, fileMap |-> <<>>, value |-> <<>>,
                 finished |-> FALSE]

\* the field change that fileChangeSignal(fileMap) brings about
FileChange(w, fileMap) == [w EXCEPT !.fileMap = fileMap, !.value = fileMap]

\* updateFileWidget(fileName): a new file widget, and fileTextChanged(fileName, "")
AddFile ==
    /\ wizard.op = "fileField"
    /\ Len(wizard.shown) < MaxShown
    /\ \E fileName \in FileNameSet :
          wizard' = [FileChange(wizard, (fileName :> <<>>) @@ wizard.fileMap)
                        EXCEPT !.shown = Append(wizard.shown, FileWidget(fileName, <<>>))]
    /\ UNCHANGED <<plot, conv, sheet, collectedData>> /\ UNCHANGED procVars

\* textChange(value) of a file widget, then fileTextChangedSlot
EditFile ==
    /\ wizard.op = "fileField"
    /\ \E i \in DOMAIN wizard.shown, v \in FileValueSet :
          /\ v # wizard.shown[i].fileVariableValue
          /\ wizard' = [FileChange(wizard, (wizard.shown[i].fileName :> v) @@ wizard.fileMap)
                           EXCEPT !.shown[i].fileVariableValue = v]
    /\ UNCHANGED <<plot, conv, sheet, collectedData>> /\ UNCHANGED procVars

\* onDeleteButtonClicked of a file widget, then fileDeletedSlot
DeleteFile ==
    /\ wizard.op = "fileField"
    /\ \E i \in DOMAIN wizard.shown :
          wizard' = [FileChange(wizard, Without(wizard.fileMap, wizard.shown[i].fileName))
                        EXCEPT !.shown = SubSeq(wizard.shown, 1, i - 1)
                                           \o SubSeq(wizard.shown, i + 1, Len(wizard.shown))]
    /\ UNCHANGED <<plot, conv, sheet, collectedData>> /\ UNCHANGED procVars

\* Wizard::finishWizard: every page is cleared, and WizardFileFieldWidget::clear
\* deletes the file widgets
FinishWizard ==
    /\ wizard.op = "fileField"
    /\ wizard' = [wizard EXCEPT !.shown = <<>>, !.finished = TRUE]
    /\ UNCHANGED <<plot, conv, sheet, collectedData>> /\ UNCHANGED procVars

\* WizardField::addToMap(map) of the file field
AddToMap(w, map) == IF w.value # <<>> THEN (FieldName :> w.value) @@ map ELSE map

NextWizard == AddFile \/ EditFile \/ DeleteFile \/ FinishWizard

SpecWizard == InitWizard /\ [][NextWizard]_vars

-----------------------------------------------------------------------------
(* SpectraDataProcessor::getXmin and getXmax: the frequency window of the plots *)

WindowTicks == 6                \* numTicks of both calls of adjustRange

WindowMargin == Rat(1, 50)      \* the 20 GHz margin, 0.020

WindowSideAmplitude == Rat(3, 20)       \* 0.15

\* std::round: to the nearest whole number, halves away from zero
StdRound(a) ==
    IF ~IsFinite(a) THEN a
    ELSE IF a.n >= 0 THEN Num((2 * a.n + a.d) \div (2 * a.d))
    ELSE Num(-((2 * (-a.n) + a.d) \div (2 * a.d)))

\* SpectraDataProcessor::adjustRange
AdjustRange(xmin, xmax, targetFreq, numTicks) ==
    LET step == RDiv(RSub(xmax, xmin), Num(numTicks))
        offsetTicks == StdRound(RDiv(RSub(targetFreq, xmin), step))
        adjustedXmin == RSub(targetFreq, RMul(offsetTicks, step))
    IN  [adjustedXmin |-> adjustedXmin,
         adjustedXmax |-> RAdd(adjustedXmin, RMul(Num(numTicks), step)),
         step |-> step]

\* the side peaks of all traces, in the order the loops visit them
RECURSIVE AllSidePeaks(_)
AllSidePeaks(side) ==
    IF side = <<>> THEN <<>> ELSE Head(side) \o AllSidePeaks(Tail(side))

RECURSIVE WidenedBy(_, _)
WidenedBy(range, peaks) ==
    IF peaks = <<>> THEN range
    ELSE LET p == Head(peaks)
         IN  WidenedBy(IF RGt(p.amplitude, WindowSideAmplitude)
                       THEN [xmin |-> RMin(range.xmin, RSub(p.frequency, p.fwhm)),
                             xmax |-> RMax(range.xmax, RAdd(p.frequency, p.fwhm))]
                       ELSE range,
                       Tail(peaks))

RECURSIVE LowestFrequency(_, _)
LowestFrequency(lowestF0, centers) ==
    IF centers = <<>> THEN lowestF0
    ELSE LowestFrequency(IF RLt(Head(centers).frequency, lowestF0)
                         THEN Head(centers).frequency ELSE lowestF0,
                         Tail(centers))

\* the part getXmin and getXmax share: the range around the first centre mode
\* and the strong side modes, the margin, and the alignment to the tick grid
AdjustedWindow ==
    LET first == centerModeData[1]
        range == WidenedBy([xmin |-> RSub(first.frequency, first.fwhm),
                            xmax |-> RAdd(first.frequency, first.fwhm)],
                           AllSidePeaks(sideModeData))
    IN  AdjustRange(RSub(range.xmin, WindowMargin), RAdd(range.xmax, WindowMargin),
                    LowestFrequency(first.frequency, centerModeData), WindowTicks)

GetXmin(fmin) ==
    IF fmin # Zero THEN fmin
    ELSE IF centerModeData = <<>> \/ xList = <<>> \/ y1List = <<>> THEN Zero
    ELSE AdjustedWindow.adjustedXmin

GetXmax(fmax) ==
    IF fmax # Zero THEN fmax
    ELSE IF centerModeData = <<>> \/ xList = <<>> \/ y1List = <<>> THEN Zero
    ELSE AdjustedWindow.adjustedXmax

\* the fmin and fmax of the constructor: not supplied (0) or supplied
FminSet == {Zero, Rat(3, 2)}

FmaxSet == {Zero, Rat(9, 2)}

\* a trace of MaxSamples samples with one line at sample k
LineAt(k) ==
    [x |-> Vector([i \in 1..MaxSamples |-> Num(i)]),
     y1 |-> Vector([i \in 1..MaxSamples |-> IF i = k THEN Num(4) ELSE Num(0)])]

\* the traces of a set: a first trace with at most two lines, read in
\* ascending or descending order, alone or followed by a trace with one line
\* at the first, the fourth or the last sample
WindowTraceListSet ==
    LET first == {[x |-> x, y1 |-> Vector(y)] :
                     x \in FrequencySet(MaxSamples),
                     y \in {a \in [1..MaxSamples -> AmplitudeSet] :
                               Cardinality({i \in 1..MaxSamples : a[i] # Zero}) <= 2}}
        second == {LineAt(k) : k \in {1, 4, MaxSamples}}
    IN  {<<t>> : t \in first} \cup {<<t, u>> : t \in first, u \in second}

InitWindow ==
    /\ kind = "Spectra" /\ files = <<>> /\ scaleFactor = DefaultScaleFactor("Spectra")
    /\ \E traces \in WindowTraceListSet :
          /\ xList = Field(traces, "x")
          /\ y1List = Field(traces, "y1")
          /\ valueList = [i \in 1..Len(traces) |-> <<"1">>]
          /\ traceFile = [i \in 1..Len(traces) |-> i]
    /\ y2List = <<>>
    /\ minX = DblMax /\ maxX = DblLowest
    /\ minY1 = DblMax /\ maxY1 = DblLowest
    /\ preNormMaxY2 = DblLowest
    /\ centerModeData = <<>> /\ sideModeData = <<>>
    /\ oob = FALSE
    /\ T = <<>> /\ Ith = <<>> /\ DR = <<>>
    /\ fitParams = NoParams
    /\ polynomialCoefficients = <<>>
    /\ fitCall = NoCall
    /\ pc = "peaks"
    /\ NoOutput

\* getXmin() and getXmax() of the constructed processor, as the spectra plots
\* call them; fmin and fmax are the members the constructor stored
GetXRange ==
    /\ kind = "Spectra" /\ pc = "done"
    /\ plot = NoPlot
    /\ \E fmin \in FminSet, fmax \in FmaxSet :
          plot' = [op |-> "getXmin", fmin |-> fmin, fmax |-> fmax,
                   xmin |-> GetXmin(fmin), xmax |-> GetXmax(fmax)]
    /\ UNCHANGED <<kind, files, scaleFactor, xList, y1List, y2List, valueList,
                   traceFile, minX, maxX, minY1, maxY1, preNormMaxY2,
                   centerModeData, sideModeData, oob, pc>>
    /\ UNCHANGED ithVars
    /\ UNCHANGED <<conv, sheet, collectedData, wizard>>

NextWindow ==
    \/ CalculatePeaks
    \/ SpectraEnsureAscendingX
    \/ SpectraNormalizeData
    \/ GetXRange

SpecWindow == InitWindow /\ [][NextWindow]_vars

-----------------------------------------------------------------------------
(* SpectraDataProcessor::calculateFWHM on traces of a few samples *)

MaxWidthSamples == 4    \* samples of a trace whose width is calculated

\* amplitudes of the samples: a half maximum falls on, above and below samples
WidthAmplitudeSet == {Num(-2), Num(0), Num(2), Num(4)}

\* frequencies of n samples: ascending, descending, or with repeated values
WidthFrequencySet(n) ==
    FrequencySet(n) \cup {Vector([i \in 1..n |-> Num((i + 1) \div 2)])}

\* the vectors x and y1 of a call: of equal size, or both empty
WidthTraceSet ==
    {[x |-> x, y1 |-> Vector(y)] :
        x \in WidthFrequencySet(MaxWidthSamples),
        y \in [1..MaxWidthSamples -> WidthAmplitudeSet]}
    \cup {[x |-> <<>>, y1 |-> <<>>]}

\* the peakFreq of a call: a frequency of the trace, or one between two
PeakFreqSet(x) == Range(x) \cup {Rat(5, 2)}

InitWidth ==
    /\ kind = "Spectra" /\ files = <<>> /\ scaleFactor = DefaultScaleFactor("Spectra")
    /\ \E t \in WidthTraceSet :
          /\ xList = <<t.x>>
          /\ y1List = <<t.y1>>
    /\ valueList = << <<"1">> >>
    /\ traceFile = <<1>>
    /\ y2List = <<>>
    /\ minX = DblMax /\ maxX = DblLowest
    /\ minY1 = DblMax /\ maxY1 = DblLowest
    /\ preNormMaxY2 = DblLowest
    /\ centerModeData = <<>> /\ sideModeData = <<>>
    /\ oob = FALSE
    /\ T = <<>> /\ Ith = <<>> /\ DR = <<>>
    /\ fitParams = NoParams
    /\ polynomialCoefficients = <<>>
    /\ fitCall = NoCall
    /\ pc = "peaks"
    /\ NoOutput

\* one call calculateFWHM(x, y1, peakFreq)
CalculateFWHMCall ==
    /\ kind = "Spectra" /\ pc = "peaks"
    /\ fitCall = NoCall
    /\ \E peakFreq \in PeakFreqSet(xList[1]) :
          fitCall' = [op |-> "calculateFWHM", peakFreq |-> peakFreq,
                      fwhm |-> CalculateFWHM(xList[1], y1List[1], peakFreq)]
    /\ UNCHANGED <<kind, files, pc, scaleFactor, oob, T, Ith, DR, fitParams,
                   polynomialCoefficients>>
    /\ UNCHANGED livVars
    /\ UNCHANGED outVars

NextWidth == CalculateFWHMCall

SpecWidth == InitWidth /\ [][NextWidth]_vars

-----------------------------------------------------------------------------
(* The LIVDataProcessor of the LIV blocks of WizardGracePage::generateGraceImages *)

\* the power-scale settings of the measurement setup pages: not collected, the
\* default text, or a measured power
PowerScaleSet == {<<>>, <<"1", "0", "0">>, <<"2", ".", "5">>, <<"4", "0">>}

\* the file maps of an LIV field
ScaleFileMaps ==
    {<<File(Label10, TRUE, <<LineB, LineE>>)>>,
     <<File(Label10, TRUE, <<LineD>>), File(Label30, TRUE, <<LineA, LineB>>)>>,
     <<File(Label10, FALSE, <<LineB>>)>>}

\* the settings as entries of the map: an empty text stands for a missing key
PowerScaleEntries(pulsedScale, cwScale) ==
    (IF pulsedScale = <<>> THEN <<>> ELSE "pulsed_power_scale_liv" :> pulsedScale)
    @@ (IF cwScale = <<>> THEN <<>> ELSE "cw_power_scale_liv" :> cwScale)

\* collectedData.value(key, 100.0).toDouble()
CollectedDouble(key) ==
    IF key \in DOMAIN collectedData THEN ToDouble(collectedData[key]) ELSE Num(100)

\* the key whose value the block of the field hands to the LIVDataProcessor:
\* the "Pulsed LIV" block and the "CW LIV" block read the same key
PowerScaleKey(field) ==
    IF field = "Pulsed LIV" THEN "pulsed_power_scale_liv" ELSE "pulsed_power_scale_liv"

InitScale ==
    /\ NoProcessor
    /\ plot = NoPlot /\ conv = NoConv /\ sheet = NoSheet /\ wizard = NoWizard
    /\ \E field \in LIVFields, map \in ScaleFileMaps,
          pulsedScale \in PowerScaleSet, cwScale \in PowerScaleSet :
          collectedData = (field :> map) @@ PowerScaleEntries(pulsedScale, cwScale)

\* new LIVDataProcessor(field, collectedData[field].toMap(), "temperature",
\* scale): the members before generateVectors
NewLIVDataProcessor ==
    /\ pc = "idle"
    /\ \E field \in LIVFields \cap DOMAIN collectedData :
          /\ kind' = "LIV"
          /\ files' = collectedData[field]
          /\ scaleFactor' = CollectedDouble(PowerScaleKey(field))
    /\ pc' = "start"
    /\ UNCHANGED <<oob, livVars, ithVars, outVars>>

NextScale ==
    \/ NewLIVDataProcessor
    \/ LIVGenerateVectors
    \/ LIVNormalizeData

SpecScale == InitScale /\ [][NextScale]_vars

TypeOK ==
    pc \in {"start", "generated", "ascending", "done", "crashed", "ith", "fitted", "idle",
            "peaks", "renormalized", "skipped"}

-----------------------------------------------------------------------------
(* Properties *)

Columns == IF kind = "LIV" THEN 3 ELSE 2

XValue(l) ==
    IF kind = "LIV" THEN ToDouble(l[1]) ELSE RMul(ToDouble(l[1]), THzPerWavenumber)

\* the line has the expected number of fields and an x value above 0.005
ValidLine(l) == Len(l) = Columns /\ RGt(XValue(l), NoiseFloor)

RowOfLine(l) ==
    IF kind = "LIV" THEN <<XValue(l), ToDouble(l[2]), ToDouble(l[3])>>
    ELSE <<XValue(l), ToDouble(l[2])>>

\* point k of trace i, before normalization
RowOfTrace(i, k) ==
    IF kind = "LIV" THEN <<xList[i][k], y1List[i][k], y2List[i][k]>>
    ELSE <<xList[i][k], y1List[i][k]>>

Parsed == pc \in {"generated", "crashed"}

\* C1: the parsed trace of a file holds exactly one point for each line with
\* the expected number of fields and an x value above 0.005, and nothing else;
\* x, y1 (and y2) have equal length and index k holds the values of one line.
C1_ParsedTrace ==
    Parsed =>
        LET lines == files[1].lines
            valid == {i \in DOMAIN lines : ValidLine(lines[i])}
        IN  /\ Len(xList) = 1
            /\ Len(y1List[1]) = Len(xList[1])
            /\ kind = "LIV" => Len(y2List[1]) = Len(xList[1])
            /\ Len(xList[1]) = Cardinality(valid)
            /\ \A k \in DOMAIN xList[1] : RGt(xList[1][k], NoiseFloor)
            /\ \A i \in valid :
                   Cardinality({k \in DOMAIN xList[1] : RowOfTrace(1, k) = RowOfLine(lines[i])})
                   = Cardinality({j \in valid : RowOfLine(lines[j]) = RowOfLine(lines[i])})

\* C1 witness: a file with a line of another field count followed by a valid
\* line, and a line at or below the noise floor, has been parsed to a non-empty trace
C1_Witness ==
    /\ Parsed
    /\ xList[1] # <<>>
    /\ \E i, j \in DOMAIN files[1].lines :
          /\ i < j
          /\ Len(files[1].lines[i]) # Columns
          /\ ValidLine(files[1].lines[j])
    /\ \E i \in DOMAIN files[1].lines :
          /\ Len(files[1].lines[i]) = Columns
          /\ ~ValidLine(files[1].lines[i])

NonDecreasing(s) == \A i, j \in DOMAIN s : i < j => RLe(s[i], s[j])

LabelKeys == [i \in DOMAIN valueList |-> ToDouble(valueList[i])]

\* the vectors read from file f are those of entry i of the lists
ReadInto(f, i) ==
    IF kind = "LIV"
    THEN [x |-> xList[i], y1 |-> y1List[i], y2 |-> y2List[i]] \in LIVVectorsFromFile(f)
    ELSE [x |-> xList[i], y1 |-> y1List[i]] = SpectraVectorsFromFile(f)

\* C2: the traces are in ascending order of the numeric value of their label
\* (a non-numeric label counting as 0.0), and the label list and the x / y1 / y2
\* lists are co-indexed: entry i of every list comes from the same file.
C2_SortedCoIndexed ==
    pc # "start" =>
        /\ NonDecreasing(LabelKeys)
        /\ Len(valueList) = Len(files) /\ Len(xList) = Len(files)
        /\ Len(y1List) = Len(files) /\ Len(traceFile) = Len(files)
        /\ kind = "LIV" => Len(y2List) = Len(files)
        /\ Range(traceFile) = DOMAIN files
        /\ \A i \in DOMAIN valueList : valueList[i] = files[traceFile[i]].label
        /\ Parsed => \A i \in DOMAIN valueList : ReadInto(files[traceFile[i]], i)

\* C2 witness: files labelled 10, 50, 30 have become the traces 10, 30, 50
C2_Witness ==
    /\ pc = "done"
    /\ Len(files) = 3
    /\ files[1].label = Label10 /\ files[2].label = Label50 /\ files[3].label = Label30
    /\ valueList = <<Label10, Label30, Label50>>
    /\ traceFile = <<1, 3, 2>>

\* C3: the sort by label is stable: traces whose labels parse to the same
\* double keep the order in which the file map supplied them.
C3_StableSort ==
    pc # "start" =>
        \A i, j \in DOMAIN traceFile :
            (i < j /\ LabelKeys[i] = LabelKeys[j]) => traceFile[i] < traceFile[j]

\* C4: after construction the x sequence of every trace is non-decreasing.
C4_AscendingX ==
    pc = "done" => \A i \in DOMAIN xList : NonDecreasing(xList[i])

Unreadable == {i \in DOMAIN files : ~files[i].readable}

\* C5: with an unreadable file the construction completes without failure or
\* out-of-range access, and that file contributes its label with empty vectors.
C5_UnreadableFile ==
    Unreadable # {} =>
        /\ ~oob
        /\ pc # "crashed"
        /\ pc # "start" =>
              \A i \in DOMAIN traceFile :
                  traceFile[i] \in Unreadable =>
                      /\ valueList[i] = files[traceFile[i]].label
                      /\ xList[i] = <<>> /\ y1List[i] = <<>>

\* the third column of every point the readable files contribute
RawY2 ==
    Flatten([i \in DOMAIN files |->
                IF files[i].readable THEN Column(LIVPoints(files[i].lines), 3) ELSE <<>>])

\* the one reference of the whole set: the largest raw y2, or 1.0 if it is 0
GlobalReference ==
    IF FoldMax(DblLowest, RawY2) = Zero THEN Num(1) ELSE FoldMax(DblLowest, RawY2)

AllX == Flatten(xList)

AllY1 == Flatten(y1List)

AllY2 == Flatten(y2List)

Reaches(i) ==
    /\ Len(xList[i]) = Len(y2List[i])
    /\ \E j \in DOMAIN y2List[i] : RGe(y2List[i][j], IthThreshold)

Surviving == SelectSeq([i \in DOMAIN valueList |-> i], Reaches)

FirstAbove(i) ==
    CHOOSE j \in DOMAIN y2List[i] :
        /\ RGe(y2List[i][j], IthThreshold)
        /\ \A k \in 1..(j - 1) : RLt(y2List[i][k], IthThreshold)

CurrentsAbove(i) == {xList[i][j] : j \in {k \in DOMAIN y2List[i] : RGe(y2List[i][k], IthThreshold)}}

Spread(S) ==
    RSub(CHOOSE a \in S : \A b \in S : RLe(b, a), CHOOSE a \in S : \A b \in S : RLe(a, b))

\* C7: threshold analysis records one (T, Ith, DR) entry for exactly the traces
\* that reach the threshold, in the order of the trace set: T is the label, Ith
\* the current at the first point at or above the threshold, DR 1000 times the
\* spread of the currents at or above it; T, Ith and DR have equal length.
C7_ThresholdEntries ==
    pc = "ith" =>
        /\ Len(T) = Len(Surviving) /\ Len(Ith) = Len(Surviving) /\ Len(DR) = Len(Surviving)
        /\ NonDecreasing(T)
        /\ \A k \in DOMAIN Surviving :
               /\ T[k] = ToDouble(valueList[Surviving[k]])
               /\ Ith[k] = xList[Surviving[k]][FirstAbove(Surviving[k])]
               /\ DR[k] = RMul(Num(1000), Spread(CurrentsAbove(Surviving[k])))

\* C7 witness: of three traces with points, one never reaches the threshold and
\* a later one does, so T is shorter by one than the trace count; the recorded
\* threshold current of some trace is not the last current above the threshold
C7_Witness ==
    /\ pc = "ith"
    /\ Len(valueList) = 3 /\ Len(T) = 2
    /\ \E i, j \in DOMAIN valueList :
          i < j /\ xList[i] # <<>> /\ ~Reaches(i) /\ Reaches(j)
    /\ \E k \in DOMAIN DR : RGt(DR[k], Zero)

Adjusted(y) == [i \in DOMAIN y |-> RSub(y[i], RMul(Rat(99, 100), MinElement(y)))]

\* n * sum(x^2) - (sum x)^2
Denominator(x) ==
    RSub(RMul(Num(Len(x)), Sum(Vector([i \in DOMAIN x |-> RMul(x[i], x[i])]))),
         RMul(Sum(x), Sum(x)))

Fittable(x, y) ==
    /\ Len(x) >= 2
    /\ \A i \in DOMAIN y : RGt(Adjusted(y)[i], Zero)
    /\ Denominator(x) # Zero

\* C8: exponentialFit returns false when there are fewer than two points, when
\* some y_i - 0.99 * min(y) is not positive, or when the denominator
\* n * sum(x^2) - (sum x)^2 is exactly 0, and true otherwise; on success A, B
\* and C0 are finite numbers and are the stored parameters; on failure the
\* stored A_exp, B_exp, C0_exp are those from before the call.
C8_ExponentialFitFailure ==
    fitCall.op = "exponentialFit" =>
        /\ fitCall.ok <=> Fittable(fitCall.x, fitCall.y)
        /\ fitCall.ok =>
              /\ IsFinite(fitCall.out.A) /\ IsFinite(fitCall.out.B)
              /\ IsFinite(fitCall.out.C0)
              /\ fitParams = fitCall.out
        /\ ~fitCall.ok => fitParams = fitCall.before

\* C8 witness: a call on three points of which one has y <= 0 has failed and
\* left stored finite parameters as they were
C8_Witness ==
    /\ fitCall.op = "exponentialFit"
    /\ Len(fitCall.x) = 3
    /\ Denominator(fitCall.x) # Zero
    /\ \E i \in DOMAIN fitCall.y : RLe(fitCall.y[i], Zero)
    /\ ~fitCall.ok
    /\ IsFinite(fitCall.before.A)
    /\ fitParams = fitCall.before

\* C9: applyExponentialFit(numPoints) never fails and never reads out of
\* range, whatever the state of the processor and numPoints; when the fit
\* succeeds it returns numPoints temperatures evenly spaced from T.first() to
\* T.last() with the model evaluated at each; when the fit fails the vector of
\* the fitted curve is empty.
C9_ApplyExponentialFit ==
    fitCall.op = "applyExponentialFit" =>
        /\ ~oob
        /\ pc # "crashed"
        /\ fitCall.ok =>
              /\ Len(fitCall.first) = fitCall.numPoints
              /\ Len(fitCall.second) = fitCall.numPoints
              /\ fitCall.first # <<>> =>
                    /\ fitCall.first[1] = T[1]
                    /\ fitCall.first[Len(fitCall.first)] = T[Len(T)]
              /\ \A i \in DOMAIN fitCall.first :
                    /\ fitCall.first[i] =
                          RAdd(T[1], RMul(Num(i - 1),
                                          RDiv(RSub(T[Len(T)], T[1]),
                                               Num(fitCall.numPoints - 1))))
                    /\ fitCall.second[i] =
                          EvaluateExponential(fitParams.A, fitParams.B, fitParams.C0,
                                              fitCall.first[i])
        /\ ~fitCall.ok => fitCall.second = <<>>

\* C10: applyPolynomialFit fits the (T, DR) series: the coefficients it stores
\* and the curve it returns are those of the polynomial fit of DR against T.
C10_PolynomialFitOfDR ==
    (fitCall.op = "applyPolynomialFit" /\ fitCall.ok) =>
        /\ polynomialCoefficients = PolynomialFit(T, DR, fitCall.order).coefficients
        /\ fitCall.second =
              [i \in DOMAIN fitCall.first |->
                  EvaluatePolynomial(PolynomialFit(T, DR, fitCall.order).coefficients,
                                     fitCall.first[i])]

NiceSet == {Num(1), Num(2), Rat(5, 2), Num(5), Num(10)}

\* base * 10^n is the first of 1, 2, 2.5, 5, 10 times 10^n, in that order, with
\* ceil(range / step) <= maxTicks
FirstNice(base, n, range, maxTicks) ==
    /\ Ceil(RDiv(range, RMul(base, TenTo(n)))) <= maxTicks
    /\ \A b \in NiceSet :
           RLt(b, base) => Ceil(RDiv(range, RMul(b, TenTo(n)))) > maxTicks

NiceStepOf(step, minVal, maxVal, maxTicks) ==
    IF RLe(maxVal, minVal) THEN step = Num(1)
    ELSE \E n \in -6..6, base \in NiceSet :
            /\ step = RMul(base, TenTo(n))
            /\ RLe(TenTo(n), RDiv(RSub(maxVal, minVal), Num(maxTicks)))
            /\ RLt(RDiv(RSub(maxVal, minVal), Num(maxTicks)), TenTo(n + 1))
            /\ FirstNice(base, n, RSub(maxVal, minVal), maxTicks)

\* C11: for min < max and maxTicks >= 1 chooseNiceStep returns the first of
\* 1, 2, 2.5, 5, 10 times 10^floor(log10((max-min)/maxTicks)) whose step keeps
\* ceil((max-min)/step) <= maxTicks (20 for 0, 97, 7); for max <= min it
\* returns 1.0; the LIVGracePlot copy and the IthGracePlot copy agree.
C11_NiceStep ==
    plot.op = "chooseNiceStep" =>
        /\ plot.liv # <<>> =>
              NiceStepOf(plot.liv[1], plot.minVal, plot.maxVal, plot.maxTicks)
        /\ plot.ith # <<>> =>
              NiceStepOf(plot.ith[1], plot.minVal, plot.maxVal, plot.maxTicks)
        /\ (plot.liv # <<>> /\ plot.ith # <<>>) => plot.liv = plot.ith
        /\ (plot.liv # <<>> /\ plot.minVal = Zero /\ plot.maxVal = Num(97)
               /\ plot.maxTicks = 7) => plot.liv[1] = Num(20)

\* C11 witness: both copies have answered 20 for the range 0..97 with 7 ticks
C11_Witness ==
    /\ plot.op = "chooseNiceStep"
    /\ plot.minVal = Zero /\ plot.maxVal = Num(97) /\ plot.maxTicks = 7
    /\ plot.liv = <<Num(20)>> /\ plot.ith = <<Num(20)>>

\* C12: the colour of every trace of the LIV plot (both graphs) and of the
\* spectra waterfall is a data colour 1..15: never 0, the white background,
\* and never outside the colour table.
C12_DataColor ==
    plot.op \in {"plot_liv", "plot_spectra_waterfall"} =>
        \A k \in DOMAIN plot.colors :
            /\ plot.colors[k].color \in ColorTable
            /\ plot.colors[k].color # U32(0)


\* C13 (as the code has it): plot_Ith_vs_T displays milliamperes exactly when
\* 1.05 times the largest threshold current is below 9.9; then the axis label
\* is [mA] and the points, the fit curve and the parameters A and C0 are the
\* ampere values times 1000, otherwise the label is [A] and they are unscaled;
\* in both modes the Jth parameters and the secondary axis range are the
\* ampere values divided by the area
Plotted == plot.op = "plot_Ith_vs_T" /\ plot.opened

DisplayFactor == IF plot.convertToMilli THEN Thousand ELSE Num(1)

DisplayedInUnit ==
    /\ plot.ylabel = (IF plot.convertToMilli THEN "[mA]" ELSE "[A]")
    /\ plot.Ith_expt = Scaled(Ith, DisplayFactor)
    /\ plot.Ith_fit = Scaled(fitCall.second, DisplayFactor)
    /\ plot.s1 =>
          /\ plot.legend.A = RMul(fitParams.A, DisplayFactor)
          /\ plot.legend.C0 = RMul(fitParams.C0, DisplayFactor)

DensityInAmperes ==
    /\ plot.s1 =>
          /\ plot.legend.J_A = RDiv(fitParams.A, AreaCm2(plot.w, plot.l))
          /\ plot.legend.J_C0 = RDiv(fitParams.C0, AreaCm2(plot.w, plot.l))
    /\ plot.JYmin = RDiv(RDiv(plot.Ymin, DisplayFactor), AreaCm2(plot.w, plot.l))
    /\ plot.JYmax = RDiv(RDiv(plot.Ymax, DisplayFactor), AreaCm2(plot.w, plot.l))

C13_MilliWhenPaddedMaxBelowLimit ==
    Plotted =>
       /\ plot.convertToMilli <=> RLt(RMul(MaxElement(Ith), Headroom), MilliLimit)
       /\ DisplayedInUnit
       /\ DensityInAmperes

C13_Witness ==
    /\ Plotted /\ plot.s1
    /\ ~plot.convertToMilli
    /\ RLt(MaxElement(Ith), MilliLimit)

\* C13 as stated: milliamperes exactly when max(Ith) < 9.9
C13_MilliWhenMaxBelowLimit ==
    Plotted => (plot.convertToMilli <=> RLt(MaxElement(Ith), MilliLimit))


\* C14: for a call of processAgrFilesToPsAndPdf on a converter that stays
\* alive, conversionFinished is delivered exactly once, and only after
\* PostScript generation, and where that succeeded the PDF/PNG conversion, has
\* been attempted for every .agr file listed at the call; the conversion of a
\* file is never started before its PostScript generation has succeeded
Converting == conv.op = "processAgrFilesToPsAndPdf"

WholeBatchAttempted ==
    /\ Len(conv.log) = conv.agrFiles
    /\ \A k \in DOMAIN conv.log :
          /\ conv.log[k].file = k
          /\ (conv.log[k].pdf # "not started") <=> (conv.log[k].ps = "ok")

ConversionInOrder ==
    Converting =>
       /\ conv.delivered + conv.queued <= 1
       /\ (conv.delivered + conv.queued > 0) => WholeBatchAttempted
       /\ (conv.at = "convertPsToPdf") => (conv.psFilePath = <<conv.i, ".ps">>)
       /\ \A k \in DOMAIN conv.log :
             (conv.log[k].pdf # "not started") => (conv.log[k].ps = "ok")

StaysAlive == Converting => conv.alive

DeliveredOnce == Converting /\ conv.delivered = 1

C14_ConversionFinishedOnce ==
    /\ []ConversionInOrder
    /\ ([]StaysAlive) => (Converting ~> []DeliveredOnce)

C14_Witness ==
    /\ Converting /\ conv.alive
    /\ conv.delivered = 1
    /\ \E j, k \in DOMAIN conv.log : conv.log[j].ps = "ok" /\ conv.log[k].ps # "ok"


\* C15: when the renderer or the converter is missing, times out or exits
\* non-zero for a file of the batch, the batch is not reported to its caller
\* as completed: conversionFinished, the only report there is, is delivered
\* only if every file was rendered and converted
Failed(attempt) == attempt.ps # "ok" \/ attempt.pdf # "moved"

C15_FailureSurfaced ==
    (Converting /\ conv.delivered > 0) => (\A k \in DOMAIN conv.log : ~Failed(conv.log[k]))


\* C18: parseIthFormulaFromAgrFile applied to the file plot_Ith_vs_T wrote
\* after a successful fit returns the two right-hand sides, separated by one
\* comma, with the numerals C0, A, T0 and J_C0, J_A, T0 as they were written,
\* in either display mode and for negative parameters too; it returns the
\* empty string only when the file has no s1 legend
Parsed18 == sheet.op = "parseIthFormulaFromAgrFile" /\ plot.op # "none" /\ plot.opened

WrittenIth ==
    Fixed1(plot.legend.C0) \o LegendPlus \o Fixed1(plot.legend.A)
    \o <<" ", "\\", "e", "x", "p", "(", "T", " ", "/", " ">> \o Fixed1(plot.legend.T0)
    \o <<")", " ", "~", "\\", "m", "a", "t", "h", "r", "m", "{", "m", "A", "}">>

WrittenJth ==
    Fixed1(plot.legend.J_C0) \o LegendPlus \o Fixed1(plot.legend.J_A)
    \o <<" ", "\\", "e", "x", "p", "(", " ", " ", "T", "/", " ">> \o Fixed1(plot.legend.T0)
    \o <<")", " ", "~", "\\", "m", "a", "t", "h", "r", "m", "{", "A", " ", "c", "m", "^", "{", 
      "-", "2", "}", "}">>

Commas(s) == Cardinality({i \in DOMAIN s : s[i] = ","})

C18_LegendRoundTrip ==
    Parsed18 =>
       IF plot.s1
       THEN /\ sheet.formula # <<>>
            /\ Commas(sheet.formula) = 1
            /\ Trimmed(SectionBefore(sheet.formula, ",")) = WrittenIth
            /\ Trimmed(SectionAfter(sheet.formula, ",")) = WrittenJth
       ELSE sheet.formula = <<>>

C18_Witness ==
    /\ Parsed18 /\ plot.s1
    /\ ~plot.convertToMilli
    /\ RLt(plot.legend.C0, Zero) /\ RLt(plot.legend.T0, Zero)
    /\ sheet.formula # <<>>


\* C16: the datasheet has the L-I-V subsection of a mode exactly when one of
\* that mode's liv and Ith_vs_T figures is available, the spectra subsection
\* exactly when one of its two ftir figures is, the section heading of the mode
\* exactly when one of its subsections is there, and it includes a figure only
\* if the file is among the available ones
Generated == sheet.op = "generate" /\ sheet.opened

\* the elements from the heading of a section up to the next heading
SectionOf(document, name) ==
    LET heads == {i \in DOMAIN document : document[i].kind = "section"}
        at == {i \in heads : document[i].name = name}
        start == CHOOSE i \in at : TRUE
        later == {i \in heads : i > start}
    IN  IF at = {} THEN <<>>
        ELSE SubSeq(document, start,
                    IF later = {} THEN Len(document)
                    ELSE (CHOOSE i \in later : \A k \in later : i <= k) - 1)

Has(elements, what, name) ==
    \E i \in DOMAIN elements : elements[i].kind = what /\ elements[i].name = name

Available(names) == names \cap sheet.availableFigures # {}

SectionAsFigures(heading, liv, ith, vsI, vsT) ==
    LET section == SectionOf(sheet.document, heading)
    IN  /\ Has(section, "subsection", "L-I-V Characteristics") <=> Available({liv, ith})
        /\ Has(section, "subsection", "Spectra Characteristics") <=> Available({vsI, vsT})
        /\ Has(sheet.document, "section", heading) <=> Available({liv, ith, vsI, vsT})
        /\ \A name \in {liv, ith, vsI, vsT} :
              Has(sheet.document, "figure", name) => Has(section, "figure", name)

C16_SectionsAsFigures ==
    Generated =>
       /\ SectionAsFigures("Pulsed Characteristics", "pulsed_liv.pdf",
                           "Ith_vs_T_pulsed_liv.pdf", "pulsed_ftir_vs_I.pdf",
                           "pulsed_ftir_vs_T.pdf")
       /\ SectionAsFigures("CW Characteristics", "cw_liv.pdf", "Ith_vs_T_cw_liv.pdf",
                           "cw_ftir_vs_I.pdf", "cw_ftir_vs_T.pdf")
       /\ ~Has(SectionOf(sheet.document, "Performance Summary"), "subsection",
               "L-I-V Characteristics")
       /\ ~Has(SectionOf(sheet.document, "Performance Summary"), "subsection",
               "Spectra Characteristics")
       /\ \A i \in DOMAIN sheet.document :
             sheet.document[i].kind = "figure" =>
                sheet.document[i].name \in sheet.availableFigures

C16_Witness ==
    /\ Generated
    /\ sheet.availableFigures = {"Ith_vs_T_pulsed_liv.pdf", "cw_ftir_vs_T.pdf"}
    /\ Has(sheet.document, "figure", "Ith_vs_T_pulsed_liv.pdf")
    /\ Has(sheet.document, "figure", "cw_ftir_vs_T.pdf")
    /\ ~Has(SectionOf(sheet.document, "CW Characteristics"), "subsection",
            "L-I-V Characteristics")

\* C17: the maximum-operating-temperature row of the performance summary, of
\* the pulsed L-I-V table and of the c.w. L-I-V table is there only when the
\* tmax value of the metadata is present and not empty, and the fields with a
\* default (duty cycle 5, drive frequency 10, gate frequency 167) show it
HasValue(metadata, key) == Trimmed(Value(metadata, key)) # <<>>

TableOf(document, name) ==
    LET at == {i \in DOMAIN document : document[i].kind = "table" /\ document[i].name = name}
        start == CHOOSE i \in at : TRUE
        ends == {i \in DOMAIN document : i > start /\ document[i].kind # "row"}
    IN  IF at = {} THEN <<>>
        ELSE SubSeq(document, start, (CHOOSE i \in ends : \A k \in ends : i <= k) - 1)

RowArgs(elements, name) ==
    LET at == {i \in DOMAIN elements : elements[i].kind = "row" /\ elements[i].name = name}
    IN  IF at = {} THEN <<>> ELSE elements[CHOOSE i \in at : TRUE].args

DefaultShown(table, name, key, def) ==
    (table # <<>> /\ ~HasValue(sheet.pulsedMetadata, key)) => RowArgs(table, name) = <<def>>

C17_MaxTemperatureRow ==
    Generated =>
       /\ Has(sheet.document, "row", "Maximum operating temperature (pulsed):")
             => HasValue(sheet.pulsedMetadata, "pulsed_tmax_liv")
       /\ Has(sheet.document, "row", "Maximum operating temperature (c.w.):")
             => HasValue(sheet.cwMetadata, "cw_tmax_liv")
       /\ Has(TableOf(sheet.document, "pulsed L-I-V"), "row", "Max Temperature:")
             => HasValue(sheet.pulsedMetadata, "pulsed_tmax_liv")
       /\ Has(TableOf(sheet.document, "cw L-I-V"), "row", "Max Temperature:")
             => HasValue(sheet.cwMetadata, "cw_tmax_liv")
       /\ DefaultShown(TableOf(sheet.document, "pulsed L-I-V"), "Duty Cycle:",
                       "pulsed_duty_cycle_liv", <<"5">>)
       /\ DefaultShown(TableOf(sheet.document, "pulsed L-I-V"), "Drive Frequency:",
                       "pulsed_drive_freq_liv", <<"1", "0">>)
       /\ DefaultShown(TableOf(sheet.document, "pulsed L-I-V"), "Gate Frequency:",
                       "pulsed_gate_freq_liv", <<"1", "6", "7">>)


\* C19 (as the code has it): polynomialFit of order k on n >= k + 1 points of
\* a polynomial with the coefficients c, at k + 1 or more different places,
\* returns true with the k + 1 coefficients c in ascending order, and stores
\* them; on n <= k points it returns false and leaves the vector of the caller
\* and the stored coefficients as they were
PolynomialFitted == fitCall.op = "polynomialFit"

EnoughPoints == Len(fitCall.x) >= fitCall.order + 1

EnoughPlaces == Cardinality(Range(fitCall.x)) >= fitCall.order + 1

Recovered ==
    /\ fitCall.ok
    /\ Len(fitCall.coefficients) = fitCall.order + 1
    /\ fitCall.coefficients = fitCall.c
    /\ polynomialCoefficients = fitCall.c

Untouched ==
    /\ ~fitCall.ok
    /\ fitCall.coefficients = fitCall.before
    /\ polynomialCoefficients = fitCall.before

-----------------------------------------------------------------------------
(* C20 *)

\* every peak stored: the centre peak and the side peaks of every trace
StoredPeaks ==
    {centerModeData[i] : i \in DOMAIN centerModeData}
        \cup UNION {{sideModeData[i][j] : j \in DOMAIN sideModeData[i]} :
                       i \in DOMAIN sideModeData}

\* the width is a number not below zero, and the quality factor goes with it
WidthAndQuality(pk) ==
    /\ ~IsNaN(pk.fwhm) /\ RGe(pk.fwhm, Zero)
    /\ RLe(pk.fwhm, Zero) => pk.qFactor = Zero
    /\ RGt(pk.fwhm, Zero) => pk.qFactor = RDiv(pk.frequency, pk.fwhm)

\* C20: every Peak stored by SpectraDataProcessor, each centre mode and each
\* side mode of each trace, has fwhm >= 0, and its qFactor is exactly 0 when
\* fwhm <= 0 and frequency / fwhm otherwise.
C20_PeakWidthAndQuality == \A pk \in StoredPeaks : WidthAndQuality(pk)

\* peaks are stored for two traces: a centre peak of positive width with a side
\* peak next to it, and a centre peak of width zero
C20_Witness ==
    /\ pc = "generated"
    /\ Len(centerModeData) = 2
    /\ RGt(centerModeData[1].fwhm, Zero)
    /\ centerModeData[1].qFactor # Zero
    /\ sideModeData[1] # <<>>
    /\ centerModeData[2].fwhm = Zero
-----------------------------------------------------------------------------
(* C21 *)

\* the step that is the second call of normalizeData
SecondNormalization == pc = "done" /\ pc' = "renormalized"

\* every value is multiplied once more by scaleFactor / referenceNorm
MultipliedAgain ==
    /\ Len(y2List') = Len(y2List)
    /\ \A i \in DOMAIN y2List :
          /\ Len(y2List'[i]) = Len(y2List[i])
          /\ \A k \in DOMAIN y2List[i] :
                y2List'[i][k] = RMul(y2List[i][k], RDiv(scaleFactor, ReferenceNorm))

\* every value that is not zero changes
NonZeroValuesChange ==
    \A i \in DOMAIN y2List : \A k \in DOMAIN y2List[i] :
        y2List[i][k] # Zero => y2List'[i][k] # y2List[i][k]

\* C21 as amended: a second call of normalizeData() multiplies every y2 value
\* again by scaleFactor / referenceNorm, and every non-zero value changes
\* whenever scaleFactor differs from referenceNorm, which is the maximum before
\* normalization, or 1 when that maximum is 0.
C21_SecondNormalizationScalesAgain ==
    [][SecondNormalization =>
          /\ MultipliedAgain
          /\ scaleFactor # ReferenceNorm => NonZeroValuesChange]_vars

\* normalizeData() has run twice on values that are not all zero, with a
\* scaleFactor other than the reference
C21_Witness ==
    /\ pc = "renormalized"
    /\ scaleFactor # ReferenceNorm
    /\ \E i \in DOMAIN y2List : \E k \in DOMAIN y2List[i] :
          /\ y2List[i][k] # Zero
          /\ y2List[i][k] #
                RMul(RDiv(ToDouble(files[1].lines[k][3]), ReferenceNorm), scaleFactor)

\* C21: calling normalizeData() a second time multiplies every y2 value again
\* by scaleFactor / referenceNorm, so every non-zero value changes whenever
\* scaleFactor differs from the maximum before normalization.
C21_SecondNormalizationChangesValues ==
    [][SecondNormalization =>
          /\ MultipliedAgain
          /\ scaleFactor # preNormMaxY2 => NonZeroValuesChange]_vars
-----------------------------------------------------------------------------
(* C22 *)

\* fit parameters are stored in collectedData
Exported == ExpKeys(FieldAtHand).I_A \in DOMAIN collectedData

\* the stored values are those of the parameters
ExportedFrom(params) ==
    \A k \in DOMAIN ExpKeys(FieldAtHand) :
        collectedData[ExpKeys(FieldAtHand)[k]] =
            FitEntries(ExpKeys(FieldAtHand), params,
                       DensityScale(plot.w, plot.l))[ExpKeys(FieldAtHand)[k]]

\* C22: whenever generateGraceImages stores exponential-fit parameters in
\* collectedData, those values are the parameters of a successful exponential
\* fit of the current Ith data; when the fit failed although canPlot() is true,
\* no uninitialised or stale parameter values are exported.
C22_ExportedParametersAreFitted ==
    Exported =>
        LET fit == ExponentialFit(T, Ith, NoParams)
        IN  /\ fit.ok
            /\ fitCall.op = "applyExponentialFit" /\ fitCall.ok
            /\ ExportedFrom(fit)

\* parameters of a successful fit are stored
C22_Fitted == Exported /\ plot.opened /\ fitCall.ok /\ ExportedFrom(ExponentialFit(T, Ith, NoParams))
-----------------------------------------------------------------------------
(* C23 *)

FiniteCoefficients ==
    \A i \in DOMAIN fitCall.coefficients : IsFinite(fitCall.coefficients[i])

\* C23: polynomialFit never divides by a zero pivot: whenever it returns true
\* the input has at least order + 1 distinct x values and every coefficient
\* returned is finite; an input of more than order points with fewer than
\* order + 1 distinct x values is reported as a failure.
C23_SingularFitReported ==
    PolynomialFitted =>
       /\ fitCall.ok => (EnoughPlaces /\ FiniteCoefficients)
       /\ (EnoughPoints /\ ~EnoughPlaces) => ~fitCall.ok
-----------------------------------------------------------------------------
(* C24 *)

Triggered == conv.op = "generateGraceImages"

\* C24: at most one conversion batch operates on the GraceFigures directory at
\* any time: pressing "Generate Grace Images" again while a batch is running
\* starts no second worker on the same files, and images are loaded into the
\* view only when no batch is working on them.
C24_OneBatchAtATime ==
    Triggered =>
        /\ Cardinality(Running(conv.batches)) <= 1
        /\ \A b \in DOMAIN conv.batches : conv.batches[b].loadedBeside = 0
-----------------------------------------------------------------------------
(* C25 *)

\* the files of the map the field contributes
ContributedFiles ==
    LET map == AddToMap(wizard, <<>>)
    IN  IF FieldName \in DOMAIN map THEN DOMAIN map[FieldName] ELSE {}

ShownFiles == {wizard.shown[i].fileName : i \in DOMAIN wizard.shown}

\* C25: after the wizard has been finished or cancelled, whatever files are
\* added, edited or deleted later, the map that addToMap contributes for a file
\* field holds exactly the files shown in the list of the field.
C25_ClearedFieldForgetsFiles ==
    (wizard.op = "fileField" /\ wizard.finished) => ContributedFiles = ShownFiles
-----------------------------------------------------------------------------
(* C26 *)

\* getXmin() and getXmax() were called without a supplied fmin and fmax on a
\* set with at least one trace
AutomaticWindow ==
    /\ plot.op = "getXmin"
    /\ plot.fmin = Zero /\ plot.fmax = Zero
    /\ centerModeData # <<>>

\* the step of the window: a sixth of its width
WindowStep == RDiv(RSub(plot.xmax, plot.xmin), Num(WindowTicks))

\* a is b plus a whole multiple of the step
OnTickGrid(a, b) ==
    LET ticks == RDiv(RSub(a, b), WindowStep)
    IN  IsFinite(ticks) /\ ticks.d = 1

\* the centre-mode frequency of every trace lies in the window
SpansAllCentres ==
    \A i \in 1..Len(centerModeData) :
        /\ RLe(plot.xmin, centerModeData[i].frequency)
        /\ RLe(centerModeData[i].frequency, plot.xmax)

\* the lowest centre-mode frequency lies on a tick of the window
LowestCentreOnTick ==
    OnTickGrid(LowestFrequency(centerModeData[1].frequency, centerModeData),
               plot.xmin)

\* C26: without a supplied fmin and fmax the window spans the centre-mode
\* frequency of every trace and has the lowest of them on one of its six tick
\* steps; a supplied fmin (fmax) is returned unchanged
C26_WindowSpansAllTraces ==
    /\ AutomaticWindow => SpansAllCentres /\ LowestCentreOnTick
    /\ plot.op = "getXmin" /\ plot.fmin # Zero => plot.xmin = plot.fmin
    /\ plot.op = "getXmin" /\ plot.fmax # Zero => plot.xmax = plot.fmax

\* the parts of C26 other than the span of the later traces
C26_TicksAndSuppliedLimits ==
    /\ AutomaticWindow =>
          /\ LowestCentreOnTick
          /\ RLe(plot.xmin, centerModeData[1].frequency)
          /\ RLe(centerModeData[1].frequency, plot.xmax)
    /\ plot.op = "getXmin" /\ plot.fmin # Zero => plot.xmin = plot.fmin
    /\ plot.op = "getXmin" /\ plot.fmax # Zero => plot.xmax = plot.fmax

-----------------------------------------------------------------------------
(* C27 *)

\* the peak data of trace i are those of the final trace: the centre mode has
\* the maximum of the final y1 as amplitude and an x where the final trace
\* attains it as frequency, and the side modes are those found on the final
\* trace
PeaksOfFinalTrace(i) ==
    LET x == xList[i]
        y1 == y1List[i]
        c == centerModeData[i]
    IN  /\ c.amplitude = MaxElement(y1)
        /\ \E k \in 1..Len(x) : x[k] = c.frequency /\ y1[k] = MaxElement(y1)
        /\ Range(sideModeData[i]) = Range(PeaksAround(x, y1, c.frequency).side)

\* C27: once the processor is constructed, the stored centre-mode and side-mode
\* data of every non-empty trace are those of its direction-corrected,
\* normalized trace
C27_PeaksDescribeFinalTraces ==
    kind = "Spectra" /\ pc = "done" =>
        \A i \in 1..Len(centerModeData) : xList[i] # <<>> => PeaksOfFinalTrace(i)

-----------------------------------------------------------------------------
(* C28 *)

\* a and b lie on opposite sides of h: b strictly on one side, a on h or on
\* the other side
OppositeSides(a, b, h) ==
    LET sa == Sign(RSub(a, h).n)
        sb == Sign(RSub(b, h).n)
    IN  sb # 0 /\ sa # sb

\* the x where the line through (x1, y1) and (x2, y2) has the value h
LinearX(x1, y1, x2, y2, h) ==
    IF x1 = x2 \/ y1 = y2 THEN x1
    ELSE RAdd(x1, RDiv(RMul(RSub(h, y1), RSub(x2, x1)), RSub(y2, y1)))

\* the interpolated x of the first pair of adjacent samples on opposite sides
\* of h, scanning from sample i in direction dir; NaN without such a pair
RECURSIVE FirstCrossing(_, _, _, _, _)
FirstCrossing(x, y1, i, dir, h) ==
    IF i + dir < 1 \/ i + dir > Len(x) THEN NaN
    ELSE IF OppositeSides(y1[i], y1[i + dir], h)
    THEN LinearX(x[i], y1[i], x[i + dir], y1[i + dir], h)
    ELSE FirstCrossing(x, y1, i + dir, dir, h)

\* a call of calculateFWHM whose peakFreq has a closest sample
WidthCalled ==
    /\ fitCall.op = "calculateFWHM"
    /\ FindClosestIndex(xList[1], fitCall.peakFreq) # 0

\* C28: calculateFWHM returns |r - l| for the first half-maximum crossings l
\* and r to the left and to the right of the peak, 0 when one of them does not
\* exist or when l = r, and never a negative or non-finite value
C28_WidthBetweenFirstCrossings ==
    WidthCalled =>
        LET x == xList[1]
            y1 == y1List[1]
            p == FindClosestIndex(x, fitCall.peakFreq)
            h == RDiv(y1[p], Num(2))
            l == FirstCrossing(x, y1, p, -1, h)
            r == FirstCrossing(x, y1, p, 1, h)
        IN  /\ fitCall.fwhm = IF IsNaN(l) \/ IsNaN(r) \/ l = r THEN Zero
                              ELSE RAbs(RSub(r, l))
            /\ IsFinite(fitCall.fwhm)
            /\ RGe(fitCall.fwhm, Zero)

\* a width between two crossings that lie between the samples of a trace read
\* in descending order
C28_Witness ==
    /\ WidthCalled
    /\ RGt(xList[1][1], xList[1][Len(xList[1])])
    /\ RGt(fitCall.fwhm, Zero)
    /\ fitCall.fwhm.d > 2

-----------------------------------------------------------------------------
(* C29 *)

\* the power-scale setting of the field: the one of its own mode
OwnPowerScale(field) ==
    CollectedDouble(IF field = "CW LIV" THEN "cw_power_scale_liv"
                    ELSE "pulsed_power_scale_liv")

\* the LIVDataProcessor of the field of collectedData is constructed
LIVConstructed == kind = "LIV" /\ pc \in {"start", "generated", "done"}

\* C29: the scale factor of the LIVDataProcessor of an LIV field is the
\* power-scale setting of the field's own mode (100 when it is not collected):
\* cw_power_scale_liv for "CW LIV", pulsed_power_scale_liv for "Pulsed LIV"
C29_OwnPowerScaleNormalizes ==
    LIVConstructed => scaleFactor = OwnPowerScale(FieldAtHand)

\* the pulsed block does use the pulsed setting
C29_PulsedUsesPulsedScale ==
    LIVConstructed /\ FieldAtHand = "Pulsed LIV" =>
        scaleFactor = CollectedDouble("pulsed_power_scale_liv")

-----------------------------------------------------------------------------
(* C30 *)

\* the line of the written file that carries the fit legend
FitLegendLine == plot.lines[CHOOSE k \in DOMAIN plot.lines : IsLegendLine(plot.lines[k])]

\* the unit that follows the Ith formula in the legend
LegendCurrentUnit ==
    IF Contains(FitLegendLine, <<")", " ", "[", "m", "A", "]">>) THEN "[mA]"
    ELSE IF Contains(FitLegendLine, <<")", " ", "[", "A", "]">>) THEN "[A]"
    ELSE "none"

\* plot_Ith_vs_T wrote the file with a fit legend
FitLegendWritten == Plotted /\ plot.s1

\* C30: the current unit of the Ith fit legend is the unit of the y-axis label
\* and of the plotted values: [mA] when they were converted to mA, [A] otherwise
C30_LegendUnitIsAxisUnit ==
    FitLegendWritten =>
        /\ LegendCurrentUnit = plot.ylabel
        /\ LegendCurrentUnit = (IF plot.convertToMilli THEN "[mA]" ELSE "[A]")

\* in the mA mode the legend, the axis label and the values agree
C30_MilliLegendAgrees ==
    FitLegendWritten /\ plot.convertToMilli =>
        LegendCurrentUnit = plot.ylabel /\ DisplayedInUnit

====
